---- MODULE Spec2Model ----
(***************************************************************************)
(* SCID-5-PD pipeline: session state machine (main.py), scoring-response   *)
(* normalisation (modules/rater.py) and the transcript hand-over of the    *)
(* exploration GUI (modules/gui.py).                                       *)
(*                                                                         *)
(* Two specifications live in this module:                                 *)
(*   SpecRater - evaluate_response applied to bounded raw service texts    *)
(*   Spec      - one session driven through main(), the GUI handlers,      *)
(*               crashes and resumes from the persisted record             *)
(***************************************************************************)
EXTENDS Integers, Sequences, FiniteSets, TLC

VARIABLES
    rater_in,      \* the service reply handed to evaluate_response
    rater_out,     \* what evaluate_response produced for rater_in
    pc,            \* position of the process in main() / the GUI event loop
    session,       \* the in-memory session dict (Null when no process runs)
    disk,          \* data/sessions/<id>/state.json
    responses,     \* SelfReportGUI.responses
    gui,           \* ExplorationGUI: criteria, current_index, results, transcript_edit
    phase,         \* state["phase"] of start_exploration's closure
    flagged,       \* the flagged list captured by start_exploration
    todo,          \* transcripts the running on_finished loop still has to rate
    crashes,       \* number of process crashes so far
    hist,          \* history: what happened to the session (not program state)
    flagger,       \* get_flagged_criteria: its inputs and what it returned
    recorder,      \* one AudioRecorder: its fields and its input stream
    clock,         \* time.time(), in seconds
    threads,       \* record_blocking, the audio callback and a manual stop: positions
    heard,         \* history: what the stream delivered (not program state)
    capture,       \* ExplorationGUI: its recorder, its threads and its buttons
    sessions,      \* data/sessions with every session in it, and the main() using it
    texts          \* the localized question-bank strings each lookup produced

raterVars == <<rater_in, rater_out>>
pipeVars  == <<pc, session, disk, responses, gui, phase, flagged, todo, crashes, hist>>
flagVars  == <<flagger>>
recorderVars == <<recorder, clock, threads, heard>>
audioVars == <<recorderVars, capture>>
storeVars == <<sessions>>
textVars == <<texts>>
nonAudioVars == <<raterVars, flagVars, pipeVars, capture, storeVars, textVars>>
nonCaptureVars == <<raterVars, flagVars, pipeVars, recorderVars, storeVars, textVars>>
nonPipeVars == <<raterVars, flagVars, audioVars, storeVars, textVars>>
nonStoreVars == <<raterVars, flagVars, pipeVars, audioVars, textVars>>
nonTextVars == <<raterVars, flagVars, pipeVars, audioVars, storeVars>>
vars      == <<rater_in, rater_out, pc, session, disk, responses, gui, phase,
               flagged, todo, crashes, hist, flagger, recorder, clock, threads, heard,
               capture, sessions, texts>>

(***************************************************************************)
(* Bounds                                                                  *)
(***************************************************************************)
MaxLines == 3      \* lines of a raw service text
MaxTrailing == 2   \* lines of a raw service text after its closing fence
MaxCrashes == 1    \* process crashes per behaviour
MaxCalls == 2      \* calls of get_flagged_criteria on one answer dict
MaxBlocks == 3     \* blocks the input stream delivers to one recorder
MaxBlockTime == 6  \* second after which the input stream delivers no block
MaxTime == 125     \* second at which the clock stops
FramesPerBlock == 2 \* frames of one callback block (BLOCK_SIZE, scaled down)
MaxCaptures == 3   \* recordings one ExplorationGUI starts
MaxCreated == 3    \* sessions create_session creates

(***************************************************************************)
(* Generic helpers                                                         *)
(***************************************************************************)
Null == [null |-> TRUE]

\* Python None where a string may stand
NoneValue == "<None>"

Min(a, b) == IF a < b THEN a ELSE b
Max(a, b) == IF a > b THEN a ELSE b

SeqToSet(s) == {s[i] : i \in 1..Len(s)}

RECURSIVE SeqsUpTo(_, _)
SeqsUpTo(S, n) ==
    IF n = 0 THEN {<<>>}
    ELSE LET shorter == SeqsUpTo(S, n - 1)
         IN  shorter \cup {Append(s, x) : s \in {t \in shorter : Len(t) = n - 1}, x \in S}

(***************************************************************************)
(* modules/rater.py - raw service text                                     *)
(*                                                                         *)
(* A raw text is a sequence of lines; a line is one token:                 *)
(*   "EMPTY"  a blank line                                                 *)
(*   "FENCE"  a line starting with ``` (with or without a language tag)    *)
(*   "PROSE"  text without braces that is not JSON ("not json at all")     *)
(*   "LBRACE" text starting with { that is not JSON ("{bad")               *)
(*   "RBRACE" text ending with } that is not JSON ("bad}")                 *)
(*   "OBJ"    one complete JSON object; its members are rater_in.obj       *)
(*   "VALUE"  one complete JSON value that is not an object ("[1]", "12")  *)
(* Confidence values are in tenths (14 is 1.4).                            *)
(***************************************************************************)
Tokens == {"EMPTY", "FENCE", "PROSE", "LBRACE", "RBRACE", "OBJ", "VALUE"}

Sc(tag, v) == [tag |-> tag, v |-> v]

\* score member of the JSON object, as json.loads delivers it
ScoreIn ==
    {Sc("missing", 0), Sc("sentinel", 0), Sc("null", 0), Sc("str", 0), Sc("inf", 0)}
    \cup {Sc("int", n) : n \in {-1, 0, 1, 2, 3}}
    \cup {Sc("numstr", 2)}
    \cup {Sc("float", t) : t \in {-5, 17}}

\* confidence member of the JSON object
ConfIn ==
    {Sc("missing", 0), Sc("str", 0)} \cup {Sc("num", t) : t \in {-3, 7, 14}}

UnresolvedIn == {"missing", "true", "false"}

\* the members of the JSON object: rationale and clarifying_question are
\* either both present or both absent
ObjContents ==
    {[score |-> s, confidence |-> c, unresolved |-> u,
      rationale |-> IF t THEN "service rationale" ELSE "missing",
      clarifying_question |-> IF t THEN "service question" ELSE "missing"] :
        s \in ScoreIn, c \in ConfIn, u \in UnresolvedIn, t \in BOOLEAN}

RawTexts == SeqsUpTo(Tokens, MaxLines)

\* the ExplorationResult score: "?" or an integer
Unknown  == Sc("?", 0)
Value(n) == Sc("int", n)

NoException == "none"

\* str.strip() of the reply: leading and trailing blank lines go (rater.py:78)
RECURSIVE LStrip(_)
LStrip(lines) ==
    IF lines # <<>> /\ Head(lines) = "EMPTY" THEN LStrip(Tail(lines)) ELSE lines

RECURSIVE RStrip(_)
RStrip(lines) ==
    IF lines # <<>> /\ lines[Len(lines)] = "EMPTY"
    THEN RStrip(SubSeq(lines, 1, Len(lines) - 1))
    ELSE lines

Strip(lines) == RStrip(LStrip(lines))

\* the loop over the lines of a fenced text (rater.py:84-93)
RECURSIVE FenceScan(_, _, _)
FenceScan(lines, inside, json_lines) ==
    IF lines = <<>> THEN json_lines
    ELSE IF Head(lines) = "FENCE" /\ ~inside THEN FenceScan(Tail(lines), TRUE, json_lines)
    ELSE IF Head(lines) = "FENCE" /\ inside THEN json_lines
    ELSE IF inside THEN FenceScan(Tail(lines), inside, Append(json_lines, Head(lines)))
    ELSE FenceScan(Tail(lines), inside, json_lines)

\* variant: the fence lines are dropped but the loop never breaks
StripFence_KeepsTrailing(raw_text) ==
    IF raw_text # <<>> /\ Head(raw_text) = "FENCE"
    THEN SelectSeq(Tail(raw_text), LAMBDA t : t # "FENCE")
    ELSE raw_text

\* rater.py:81-94
StripFence(raw_text) ==
    IF raw_text # <<>> /\ Head(raw_text) = "FENCE"
    THEN FenceScan(raw_text, FALSE, <<>>)
    ELSE raw_text

\* json.loads: the text is one JSON value surrounded by whitespace only
NonBlank(lines) == SelectSeq(lines, LAMBDA t : t # "EMPTY")

json_loads(lines) ==
    LET toks == NonBlank(lines)
    IN  IF Len(toks) = 1 /\ toks[1] \in {"OBJ", "VALUE"}
        THEN [ok |-> TRUE, kind |-> toks[1]]
        ELSE [ok |-> FALSE, kind |-> "none"]

\* str.find("{"): index of the first line holding a "{", -1 when none
Find(lines) ==
    LET I == {i \in 1..Len(lines) : lines[i] \in {"LBRACE", "OBJ"}}
    IN  IF I = {} THEN -1 ELSE CHOOSE i \in I : \A j \in I : i <= j

\* str.rfind("}"): index of the last line holding a "}", -1 when none
RFind(lines) ==
    LET I == {i \in 1..Len(lines) : lines[i] \in {"RBRACE", "OBJ"}}
    IN  IF I = {} THEN -1 ELSE CHOOSE i \in I : \A j \in I : i >= j

\* the dict built when nothing can be parsed (rater.py:105-111)
FallbackDict ==
    [score |-> Sc("int", 1), confidence |-> Sc("num", 0), unresolved |-> "true",
     rationale |-> "Failed to parse API response", 
     clarifying_question |-> "Could you elaborate on your experience?"]

\* rater.py:96-111: the parsed value, or the exception that leaves the function
ParseRaw(raw_text, obj) ==
    LET direct == json_loads(raw_text)
        start  == Find(raw_text)
        end    == RFind(raw_text)
    IN  IF direct.ok
        THEN [exc |-> NoException, kind |-> direct.kind,
              dict |-> IF direct.kind = "OBJ" THEN obj ELSE FallbackDict]
        ELSE IF start >= 0 /\ end >= start
        THEN LET sub == json_loads(SubSeq(raw_text, start, end))
             IN  IF sub.ok
                 THEN [exc |-> NoException, kind |-> sub.kind, dict |-> obj]
                 ELSE [exc |-> "JSONDecodeError", kind |-> "none", dict |-> FallbackDict]
        ELSE [exc |-> NoException, kind |-> "FALLBACK", dict |-> FallbackDict]

\* dict.setdefault for the five keys (rater.py:114-118)
SetDefaults(d) ==
    [score |-> IF d.score.tag = "missing" THEN Sc("sentinel", 0) ELSE d.score,
     rationale |-> IF d.rationale = "missing" THEN "" ELSE d.rationale,
     confidence |-> IF d.confidence.tag = "missing" THEN Sc("num", 5) ELSE d.confidence,
     unresolved |-> IF d.unresolved = "missing" THEN "false" ELSE d.unresolved,
     clarifying_question |->
         IF d.clarifying_question = "missing" THEN NoneValue ELSE d.clarifying_question]

\* int(score): the integer, or the exception int() raises
IntOf(score) ==
    CASE score.tag = "int"    -> [exc |-> NoException, v |-> score.v]
      [] score.tag = "numstr" -> [exc |-> NoException, v |-> score.v]
      [] score.tag = "float"  ->
            [exc |-> NoException,
             v |-> IF score.v >= 0 THEN score.v \div 10 ELSE -((-score.v) \div 10)]
      [] score.tag = "str"    -> [exc |-> "ValueError", v |-> 0]
      [] score.tag = "null"   -> [exc |-> "TypeError", v |-> 0]
      [] score.tag = "inf"    -> [exc |-> "OverflowError", v |-> 0]
      [] OTHER                -> [exc |-> "ValueError", v |-> 0]

\* rater.py:121-130: score and unresolved after the score is normalised
NormalizeScore(d) ==
    IF d.score.tag = "sentinel"
    THEN [exc |-> NoException, score |-> Unknown, unresolved |-> TRUE]
    ELSE LET n == IntOf(d.score)
         IN  IF n.exc = NoException
             THEN [exc |-> NoException, score |-> Value(Max(0, Min(2, n.v))),
                   unresolved |-> (d.unresolved = "true")]
             ELSE IF n.exc \in {"ValueError", "TypeError"}
             THEN [exc |-> NoException, score |-> Unknown, unresolved |-> TRUE]
             ELSE [exc |-> n.exc, score |-> Unknown, unresolved |-> TRUE]

NormalizeConfidence_NoUpperBound(d) ==
    IF d.confidence.tag = "num"
    THEN [exc |-> NoException, confidence |-> Max(0, d.confidence.v)]
    ELSE [exc |-> "ValueError", confidence |-> 0]

\* rater.py:132: max(0.0, min(1.0, float(confidence))), in tenths
NormalizeConfidence(d) ==
    IF d.confidence.tag = "num"
    THEN [exc |-> NoException, confidence |-> Max(0, Min(10, d.confidence.v))]
    ELSE [exc |-> "ValueError", confidence |-> 0]

Raised(e) == [exc |-> e, result |-> Null]

\* rater.py:47-134. svc is the reply of client.messages.create:
\* transport "error" when the call raises, otherwise the text and its object
evaluate_response(svc) ==
    IF svc.transport = "error" THEN Raised("APIConnectionError")
    ELSE
    LET raw_text == StripFence(Strip(svc.raw))
        parsed   == ParseRaw(raw_text, svc.obj)
    IN  IF parsed.exc # NoException THEN Raised(parsed.exc)
        ELSE IF parsed.kind = "VALUE" THEN Raised("AttributeError")
        ELSE
        LET d  == SetDefaults(parsed.dict)
            sc == NormalizeScore(d)
            cf == NormalizeConfidence(d)
        IN  IF sc.exc # NoException THEN Raised(sc.exc)
            ELSE IF cf.exc # NoException THEN Raised(cf.exc)
            ELSE [exc |-> NoException,
                  result |-> [score |-> sc.score, rationale |-> d.rationale,
                              confidence |-> cf.confidence, unresolved |-> sc.unresolved,
                              clarifying_question |-> d.clarifying_question]]

(***************************************************************************)
(* Python dicts keep insertion order: a dict is a sequence of entries.     *)
(***************************************************************************)
DictKeys(d) == {d[i].k : i \in 1..Len(d)}

DictGet(d, key) == LET i == CHOOSE j \in 1..Len(d) : d[j].k = key IN d[i].v

\* d[key] = val: an existing key keeps its place, a new key goes last
DictPut(d, key, val) ==
    IF key \in DictKeys(d)
    THEN [i \in 1..Len(d) |-> IF d[i].k = key THEN [k |-> key, v |-> val] ELSE d[i]]
    ELSE Append(d, [k |-> key, v |-> val])

\* Python truthiness of an optional string
Truthy(x) == x \notin {NoneValue, ""}

(***************************************************************************)
(* json.dump / json.load of the session (main.py:53, 59). A JSON document  *)
(* is a tree of typed values: string, integer literal, real literal (in    *)
(* tenths), true, false, null, object (members in written order).          *)
(***************************************************************************)
JStr(x)  == [j |-> "string", s |-> x]
JInt(n)  == [j |-> "int", n |-> n]
JReal(t) == [j |-> "real", t |-> t]
JBool(b) == [j |-> IF b THEN "true" ELSE "false"]
JNull    == [j |-> "null"]
JObj(members) == [j |-> "object", members |-> members]
Mem(name, value) == [name |-> name, value |-> value]

\* the value of the member of an object
JGet(obj, name) ==
    obj.members[CHOOSE i \in 1..Len(obj.members) : obj.members[i].name = name].value

\* dump_opt_str writing None as the empty string
dump_opt_str_NoneAsEmpty(x) == IF x = NoneValue THEN JStr("") ELSE JStr(x)

\* json.dump of an optional str: None is written as null
dump_opt_str(x) == IF x = NoneValue THEN JNull ELSE JStr(x)

\* json.dump of a score: the str "?" or an int
dump_score(sc) == IF sc.tag = "?" THEN JStr("?") ELSE JInt(sc.v)

\* json.dump of a dict with str keys and dumped values, members in
\* insertion order
dump_dict(d) == JObj([i \in 1..Len(d) |-> Mem(d[i].k, d[i].v)])

dump_result(r) ==
    JObj(<<Mem("score", dump_score(r.score)),
           Mem("rationale", JStr(r.rationale)),
           Mem("confidence", JReal(r.confidence)),
           Mem("unresolved", JBool(r.unresolved)),
           Mem("clarifying_question", dump_opt_str(r.clarifying_question)),
           Mem("transcript", JStr(r.transcript)),
           Mem("clarification_transcript", dump_opt_str(r.clarification_transcript))>>)

dump_verdict(v) ==
    JObj(<<Mem("criteria_met", JInt(v.criteria_met)),
           Mem("threshold", JInt(v.threshold)),
           Mem("diagnosis", JBool(v.diagnosis)),
           Mem("has_unresolved", JBool(v.has_unresolved))>>)

\* main.py:53: json.dump(session, f, indent=2, ensure_ascii=False)
json_dump(sess) ==
    JObj(<<Mem("stage", JStr(sess.stage)),
           Mem("screening_responses", dump_dict([i \in 1..Len(sess.screening_responses) |->
                  [k |-> sess.screening_responses[i].k, v |-> JBool(sess.screening_responses[i].v)]])),
           Mem("exploration_results", dump_dict([i \in 1..Len(sess.exploration_results) |->
                  [k |-> sess.exploration_results[i].k, v |-> dump_result(sess.exploration_results[i].v)]])),
           Mem("disorder_verdicts", dump_dict([i \in 1..Len(sess.disorder_verdicts) |->
                  [k |-> sess.disorder_verdicts[i].k, v |-> dump_verdict(sess.disorder_verdicts[i].v)]]))>>)

\* json.load: true / false -> bool
load_bool(v) == v.j = "true"

\* json.load: null -> None, a string -> str
load_opt_str(v) == IF v.j = "null" THEN NoneValue ELSE v.s

\* json.load: a string stays a str, an integer literal becomes an int
load_score(v) ==
    CASE v.j = "string" -> IF v.s = "?" THEN Unknown ELSE Sc("str", 0)
      [] v.j = "int"    -> Value(v.n)
      [] v.j = "real"   -> Sc("float", v.t)
      [] OTHER          -> Sc("null", 0)

\* json.load: an object -> dict of documents, keys in written order
load_dict(obj) ==
    [i \in 1..Len(obj.members) |->
        [k |-> obj.members[i].name, v |-> obj.members[i].value]]

load_result(v) ==
    [score |-> load_score(JGet(v, "score")),
     rationale |-> JGet(v, "rationale").s,
     confidence |-> JGet(v, "confidence").t,
     unresolved |-> load_bool(JGet(v, "unresolved")),
     clarifying_question |-> load_opt_str(JGet(v, "clarifying_question")),
     transcript |-> JGet(v, "transcript").s,
     clarification_transcript |-> load_opt_str(JGet(v, "clarification_transcript"))]

load_verdict(v) ==
    [criteria_met |-> JGet(v, "criteria_met").n,
     threshold |-> JGet(v, "threshold").n,
     diagnosis |-> load_bool(JGet(v, "diagnosis")),
     has_unresolved |-> load_bool(JGet(v, "has_unresolved"))]

\* main.py:59: json.load(f)
json_load(doc) ==
    [stage |-> JGet(doc, "stage").s,
     screening_responses |->
         LET d == load_dict(JGet(doc, "screening_responses"))
         IN  [i \in 1..Len(d) |-> [k |-> d[i].k, v |-> load_bool(d[i].v)]],
     exploration_results |->
         LET d == load_dict(JGet(doc, "exploration_results"))
         IN  [i \in 1..Len(d) |-> [k |-> d[i].k, v |-> load_result(d[i].v)]],
     disorder_verdicts |->
         LET d == load_dict(JGet(doc, "disorder_verdicts"))
         IN  [i \in 1..Len(d) |-> [k |-> d[i].k, v |-> load_verdict(d[i].v)]]]

(***************************************************************************)
(* The question bank (data/questions.json, read-only)                      *)
(***************************************************************************)
Questions ==
    [disorder_keys |-> <<"paranoid">>,
     threshold |-> [d \in {"paranoid"} |-> 2],
     criteria |-> [d \in {"paranoid"} |-> <<"PPD_1", "PPD_2">>],
     item_ids |-> <<"Q1", "Q2">>,
     item_disorder |-> [i \in {"Q1", "Q2"} |-> "paranoid"],
     maps_to_criteria |->
         [i \in {"Q1", "Q2"} |-> IF i = "Q1" THEN <<"PPD_1">> ELSE <<"PPD_2", "PPD_1">>]]

(***************************************************************************)
(* main.py - stages, persistence, flagging, verdicts                       *)
(***************************************************************************)
Stages == <<"INIT", "SELF_REPORT", "EXPLORATION", "EVALUATION", "REPORT", "COMPLETE">>

StageIndex(st) == CHOOSE i \in 1..Len(Stages) : Stages[i] = st

\* main.py:29-39: the dict create_session builds
NewSession ==
    [stage |-> "INIT", screening_responses |-> <<>>, exploration_results |-> <<>>,
     disorder_verdicts |-> <<>>]

NoFile == [kind |-> "none", rec |-> Null]

\* what open(path, "w") followed by an interrupted json.dump leaves behind
TruncatedFile == [kind |-> "truncated", rec |-> Null]

\* "error": open() raises OSError and the file is untouched; "crash": the
\* process dies after open() truncated the file and before json.dump finished
SaveOutcomes == {"ok", "error", "crash"}

\* main.py:48-53: the file after save_session(sess) ran with outcome o, given
\* the file before. open(path, "w") truncates in place, json.dump then writes
\* the text piece by piece; there is no temporary file and no rename.
save_session(file, sess, o) ==
    CASE o = "ok"    -> [kind |-> "complete", rec |-> json_dump(sess)]
      [] o = "error" -> file
      [] o = "crash" -> TruncatedFile

\* main.py:56-59: json.load of a complete file
load_session(file) == json_load(file.rec)

\* FlagCriteria collecting the entries in a list, without the membership
\* test of main.py:102-103
RECURSIVE FlagCriteria_NoDedup(_, _, _)
FlagCriteria_NoDedup(crit_ids, disorder_key, flagged_criteria) ==
    IF crit_ids = <<>> THEN flagged_criteria
    ELSE LET crit_id == Head(crit_ids)
         IN  FlagCriteria_NoDedup(Tail(crit_ids), disorder_key,
                IF crit_id \notin SeqToSet(Questions.criteria[disorder_key])
                THEN flagged_criteria
                ELSE Append(flagged_criteria,
                            [criterion_id |-> crit_id, disorder |-> disorder_key,
                             clarifying_question |-> NoneValue]))

\* main.py:101-110
RECURSIVE FlagCriteria(_, _, _)
FlagCriteria(crit_ids, disorder_key, flagged_criteria) ==
    IF crit_ids = <<>> THEN flagged_criteria
    ELSE LET crit_id == Head(crit_ids)
             known   == {flagged_criteria[i].criterion_id : i \in 1..Len(flagged_criteria)}
         IN  FlagCriteria(Tail(crit_ids), disorder_key,
                IF crit_id \in known
                   \/ crit_id \notin SeqToSet(Questions.criteria[disorder_key])
                THEN flagged_criteria
                ELSE Append(flagged_criteria,
                            [criterion_id |-> crit_id, disorder |-> disorder_key,
                             clarifying_question |-> NoneValue]))

\* FlagItems leaving the loop at the first answer that is not yes (break
\* instead of continue at main.py:89-90)
RECURSIVE FlagItems_StopsAtNo(_, _)
FlagItems_StopsAtNo(resp, flagged_criteria) ==
    IF resp = <<>> THEN flagged_criteria
    ELSE LET item_id == Head(resp).k
             yes     == Head(resp).v
         IN  IF ~yes THEN flagged_criteria
             ELSE FlagItems_StopsAtNo(Tail(resp),
                    IF item_id \notin SeqToSet(Questions.item_ids)
                    THEN flagged_criteria
                    ELSE FlagCriteria(Questions.maps_to_criteria[item_id],
                                      Questions.item_disorder[item_id], flagged_criteria))

\* main.py:88-110
RECURSIVE FlagItems(_, _)
FlagItems(resp, flagged_criteria) ==
    IF resp = <<>> THEN flagged_criteria
    ELSE LET item_id == Head(resp).k
             yes     == Head(resp).v
         IN  FlagItems(Tail(resp),
                IF ~yes \/ item_id \notin SeqToSet(Questions.item_ids)
                THEN flagged_criteria
                ELSE FlagCriteria(Questions.maps_to_criteria[item_id],
                                  Questions.item_disorder[item_id], flagged_criteria))

\* variant: criteria that already have a result are left out of the list
get_flagged_criteria_SkipsExplored(sess) ==
    SelectSeq(FlagItems(sess.screening_responses, <<>>),
              LAMBDA c : c.criterion_id \notin DictKeys(sess.exploration_results))

\* main.py:81-112
get_flagged_criteria(sess) == FlagItems(sess.screening_responses, <<>>)

\* Remaining that ignores the results the session already holds
Remaining_IgnoresResults(fl, sess) == fl

\* Remaining that also takes back the criteria whose result is unresolved
Remaining_RetriesUnresolved(fl, sess) ==
    SelectSeq(fl, LAMBDA c :
        \/ c.criterion_id \notin DictKeys(sess.exploration_results)
        \/ DictGet(sess.exploration_results, c.criterion_id).unresolved)

\* main.py:164
Remaining(fl, sess) ==
    SelectSeq(fl, LAMBDA c : c.criterion_id \notin DictKeys(sess.exploration_results))

Verdict_CountsEveryScore(sess, questions, disorder_key) ==
    LET criteria == SeqToSet(questions.criteria[disorder_key])
        res      == sess.exploration_results
        met      == {c \in criteria : c \in DictKeys(res) /\ DictGet(res, c).score # Unknown}
        unres    == {c \in criteria : c \in DictKeys(res)
                        /\ (DictGet(res, c).unresolved \/ DictGet(res, c).score = Unknown)}
    IN  [criteria_met |-> Cardinality(met),
         threshold |-> questions.threshold[disorder_key],
         diagnosis |-> Cardinality(met) >= questions.threshold[disorder_key],
         has_unresolved |-> unres # {}]

Verdict_FlagOnly(sess, questions, disorder_key) ==
    LET criteria == SeqToSet(questions.criteria[disorder_key])
        res      == sess.exploration_results
        met      == {c \in criteria : c \in DictKeys(res) /\ DictGet(res, c).score = Value(2)}
        unres    == {c \in criteria : c \in DictKeys(res)
                        /\ DictGet(res, c).unresolved /\ DictGet(res, c).score # Unknown}
    IN  [criteria_met |-> Cardinality(met),
         threshold |-> questions.threshold[disorder_key],
         diagnosis |-> Cardinality(met) >= questions.threshold[disorder_key],
         has_unresolved |-> unres # {}]

\* main.py:119-141 for one disorder
Verdict(sess, questions, disorder_key) ==
    LET criteria == SeqToSet(questions.criteria[disorder_key])
        res      == sess.exploration_results
        met      == {c \in criteria : c \in DictKeys(res) /\ DictGet(res, c).score = Value(2)}
        unres    == {c \in criteria : c \in DictKeys(res)
                        /\ (DictGet(res, c).unresolved \/ DictGet(res, c).score = Unknown)}
    IN  [criteria_met |-> Cardinality(met),
         threshold |-> questions.threshold[disorder_key],
         diagnosis |-> Cardinality(met) >= questions.threshold[disorder_key],
         has_unresolved |-> unres # {}]

RECURSIVE VerdictLoop_EveryDisorder(_, _, _, _)
VerdictLoop_EveryDisorder(sess, questions, keys, verdicts) ==
    IF keys = <<>> THEN verdicts
    ELSE LET d == Head(keys)
         IN  VerdictLoop_EveryDisorder(sess, questions, Tail(keys),
                DictPut(verdicts, d, Verdict(sess, questions, d)))

\* main.py:115-143
RECURSIVE VerdictLoop(_, _, _, _)
VerdictLoop(sess, questions, keys, verdicts) ==
    IF keys = <<>> THEN verdicts
    ELSE LET d == Head(keys)
             explored == \E c \in SeqToSet(questions.criteria[d]) :
                            c \in DictKeys(sess.exploration_results)
         IN  VerdictLoop(sess, questions, Tail(keys),
                IF explored THEN DictPut(verdicts, d, Verdict(sess, questions, d))
                ELSE verdicts)

compute_disorder_verdicts(sess, questions) ==
    VerdictLoop(sess, questions, questions.disorder_keys, <<>>)

(***************************************************************************)
(* External collaborators: what they can answer                            *)
(***************************************************************************)
ServiceObj(score, unresolved, has_text) ==
    [score |-> score, confidence |-> Sc("num", 7), unresolved |-> unresolved,
     rationale |-> IF has_text THEN "service rationale" ELSE "missing",
     clarifying_question |-> IF has_text THEN "service question" ELSE "missing"]

\* replies of the scoring service seen by the pipeline
PipeReplies ==
    {[transport |-> "ok", raw |-> <<"OBJ">>, obj |-> ServiceObj(Sc("int", 2), "false", FALSE)],
     [transport |-> "ok", raw |-> <<"OBJ">>, obj |-> ServiceObj(Sc("sentinel", 0), "true", TRUE)],
     [transport |-> "ok", raw |-> <<"LBRACE", "RBRACE">>,
      obj |-> ServiceObj(Sc("missing", 0), "missing", FALSE)],
     [transport |-> "error", raw |-> <<>>, obj |-> ServiceObj(Sc("missing", 0), "missing", FALSE)]}

\* replies of the transcription service: a text, or a transport/service error
AsrReplies ==
    {[ok |-> TRUE, text |-> "spoken answer"], [ok |-> TRUE, text |-> ""],
     [ok |-> FALSE, text |-> ""]}

(***************************************************************************)
(* modules/gui.py - ExplorationGUI as far as transcripts are concerned     *)
(***************************************************************************)
NoGui == [criteria |-> <<>>, current_index |-> 0, results |-> <<>>,
          transcript_edit |-> "", accept_enabled |-> FALSE, asr |-> "none"]

\* gui.py:383-403 and gui.py:575-586: a GUI showing the first of the criteria
LoadedGui(criteria) ==
    [criteria |-> criteria, current_index |-> 0, results |-> <<>>,
     transcript_edit |-> "", accept_enabled |-> FALSE, asr |-> "none"]

\* gui.py:369-374: the text TranscriptionThread emits
TranscriptionThread_run(reply) ==
    IF reply.ok THEN reply.text ELSE "[Transcription error: e]"

\* evaluate_response plus the two keys on_finished adds (main.py:183-185, 216-220)
WithTranscripts(result, transcript, clarification_transcript) ==
    [score |-> result.score, rationale |-> result.rationale,
     confidence |-> result.confidence, unresolved |-> result.unresolved,
     clarifying_question |-> result.clarifying_question,
     transcript |-> transcript, clarification_transcript |-> clarification_transcript]

\* rater.py:137-149: the combined transcript only goes into the request
evaluate_with_clarification(original_transcript, clarification_transcript, svc) ==
    evaluate_response(svc)

\* main.py:179: next((c for c in flagged if c["criterion_id"] == crit_id), None)
HasCritData(fl, crit_id) == \E i \in 1..Len(fl) : fl[i].criterion_id = crit_id

CritData(fl, crit_id) ==
    fl[CHOOSE i \in 1..Len(fl) : fl[i].criterion_id = crit_id]

\* main.py:189-197
RECURSIVE NeedsClarification(_, _)
NeedsClarification(results, fl) ==
    IF results = <<>> THEN <<>>
    ELSE LET crit_id == Head(results).k
             result  == Head(results).v
             rest    == NeedsClarification(Tail(results), fl)
         IN  IF result.unresolved /\ ~Truthy(result.clarification_transcript)
                /\ HasCritData(fl, crit_id)
             THEN <<[criterion_id |-> crit_id,
                     disorder |-> CritData(fl, crit_id).disorder,
                     clarifying_question |-> result.clarifying_question]>> \o rest
             ELSE rest

(***************************************************************************)
(* History                                                                 *)
(***************************************************************************)
NoHist == [escaped |-> "none",     \* exception of the scoring call that left on_finished
           failed_for |-> "none",  \* the criterion that scoring call was for
           rescored |-> {},        \* criteria re-scored with a clarification answer
           report |-> "none"]      \* how the last generate_pdf call for the session ended

(***************************************************************************)
(* Initial state: no process, no session file                              *)
(***************************************************************************)
RaterIdle == [transport |-> "ok", raw |-> <<>>, obj |-> ServiceObj(Sc("missing", 0), "missing", FALSE)]

(***************************************************************************)
(* modules/exploration_engine.py - AudioRecorder                           *)
(***************************************************************************)
SAMPLE_RATE == 16000
MAX_DURATION_S == 120
SILENCE_DURATION_S == 3

\* self._silence_start is None
NoTime == -1

\* exploration_engine.py:42-51: AudioRecorder() as constructed; "none" says
\* that the object has no _stream attribute yet
NewRecorder ==
    [max_duration |-> MAX_DURATION_S, silence_duration |-> SILENCE_DURATION_S,
     frames |-> <<>>, is_recording |-> FALSE, silence_start |-> NoTime,
     stopped_by_silence |-> FALSE, stream |-> "none"]

\* no thread has started: record_blocking (rb), the audio callback (cb) and
\* the GUI thread in stop_recording (ui)
ThreadsIdle ==
    [rb |-> [pc |-> "idle", start_time |-> 0, checked_at |-> NoTime, result |-> Null],
     cb |-> [pc |-> "idle", block |-> 0, loud |-> FALSE],
     ui |-> [pc |-> "idle"]]

NothingHeard ==
    [blocks |-> 0,            \* blocks the stream has delivered
     first_quiet |-> NoTime,  \* delivery time of the first silent block
     quiet_since |-> NoTime,  \* delivery time of the first block of the silent run
                              \* the recording recorder is in
     stop_frames |-> <<>>]    \* _frames when the manual stop was requested

\* str(uuid.uuid4())[:8]: the identifiers create_session can draw
SessionIds == {"1f0c9a4e", "7b3d2c61"}

\* data/sessions is empty and no main() runs
NoSessions ==
    [dir |-> [id \in SessionIds |-> Null],  \* <id>/state.json, Null when absent
     proc |-> Null,                          \* the session dict of the running main()
     now |-> 0]                              \* datetime.now()

StoreInit == sessions = NoSessions

\* no lookup of a localized field has been made
NoTexts == [language |-> "de", criterion |-> <<>>, item |-> <<>>,
            message |-> Null, display |-> Null, row |-> Null]

TextInit == texts = NoTexts

\* gui.py:383-403: ExplorationGUI.__init__ (recorder 0 is the AudioRecorder
\* of line 397, which never records; thread 0 is None)
NewExplorationGUI ==
    [recs |-> <<>>,            \* the RecordingThreads started, with their recorders
     trans |-> <<>>,           \* the TranscriptionThreads started
     recorder |-> 0,           \* self.recorder
     rec_thread |-> 0,         \* self._rec_thread
     trans_thread |-> 0,       \* self._trans_thread
     current_index |-> 0,
     loaded |-> FALSE,         \* load_criteria was called
     closed |-> FALSE,         \* the window was closed
     accept_btn |-> FALSE,
     rerecord_btn |-> FALSE,
     transcript_edit |-> "",   \* the text of self.transcript_edit
     results |-> <<>>]         \* self.results: criterion id -> accepted transcript

AudioInit ==
    /\ recorder = NewRecorder
    /\ clock = 0
    /\ threads = ThreadsIdle
    /\ heard = NothingHeard
    /\ capture = NewExplorationGUI

\* get_flagged_criteria not under consideration
FlagIdle == [answers |-> <<>>, reordered |-> <<>>, out |-> <<>>,
             out_reordered |-> [called |-> FALSE, list |-> <<>>]]

PipeInit ==
    /\ pc = "down"
    /\ session = Null
    /\ disk = NoFile
    /\ responses = <<>>
    /\ gui = NoGui
    /\ phase = "none"
    /\ flagged = <<>>
    /\ todo = <<>>
    /\ crashes = 0
    /\ hist = NoHist

Init ==
    /\ rater_in = RaterIdle
    /\ rater_out = [called |-> FALSE, exc |-> NoException, result |-> Null]
    /\ flagger = FlagIdle
    /\ AudioInit
    /\ StoreInit
    /\ TextInit
    /\ PipeInit

(***************************************************************************)
(* Process death (crash, or an exception that leaves main): the process    *)
(* memory is gone, the file stays.                                         *)
(***************************************************************************)
Dead ==
    /\ pc' = "down"
    /\ session' = Null
    /\ responses' = <<>>
    /\ gui' = NoGui
    /\ phase' = "none"
    /\ flagged' = <<>>
    /\ todo' = <<>>

\* The tail of a handler step that ends in save_session(nsess) with outcome o.
\* ok_pc: where the handler goes on; err_pc: where control is after the
\* exception of a failed write ("down" when it leaves main(), otherwise the
\* event loop, which reports an exception raised in a slot and keeps running).
Checkpoint(o, ok_pc, err_pc, nsess, ngui, nphase, nflagged, ntodo, nrescored, nreport) ==
    LET raised == o = "error"
        dies   == o = "crash" \/ (raised /\ err_pc = "down")
    IN  /\ (o = "crash") => crashes < MaxCrashes
        /\ disk' = save_session(disk, nsess, o)
        /\ crashes' = IF o = "crash" THEN crashes + 1 ELSE crashes
        /\ IF dies THEN Dead
           ELSE /\ pc' = IF raised THEN err_pc ELSE ok_pc
                /\ session' = nsess
                /\ responses' = responses
                /\ gui' = ngui
                /\ phase' = nphase
                /\ flagged' = nflagged
                /\ todo' = IF raised THEN <<>> ELSE ntodo
        /\ hist' = [escaped |-> IF dies THEN "none" ELSE hist.escaped,
                    failed_for |-> IF dies THEN "none" ELSE hist.failed_for,
                    rescored |-> nrescored,
                    report |-> nreport]

WithStage(sess, st) == [sess EXCEPT !.stage = st]

(***************************************************************************)
(* main(): start of a process (main.py:276-305, 231-248)                   *)
(***************************************************************************)
\* no session on disk: create_session, then run_gui_pipeline shows the
\* self-report form
MainNewSession ==
    /\ pc = "down"
    /\ disk.kind = "none"
    /\ \E o \in SaveOutcomes :
          Checkpoint(o, "self_report", "down", NewSession, NoGui, "none",
                     <<>>, <<>>, hist.rescored, "none")
    /\ UNCHANGED nonPipeVars

\* an incomplete session on disk is resumed at its recorded stage. With a
\* truncated file list_sessions raises before anything is touched, so no
\* step exists for it.
MainResume ==
    /\ pc = "down"
    /\ disk.kind = "complete"
    /\ load_session(disk).stage # "COMPLETE"
    /\ LET sess == load_session(disk)
       IN  /\ session' = sess
           /\ pc' = CASE sess.stage = "INIT" -> "self_report"
                       [] sess.stage \in {"SELF_REPORT", "EXPLORATION"} -> "resume_exploration"
                       [] OTHER -> "main"
           \* gui.py:113: SelfReportGUI restores the answers of the session
           /\ responses' = IF sess.stage = "INIT" THEN sess.screening_responses ELSE <<>>
    /\ UNCHANGED <<disk, gui, phase, flagged, todo, crashes, hist, nonPipeVars>>

(***************************************************************************)
(* SelfReportGUI (gui.py:290-337) and on_self_report_finished              *)
(***************************************************************************)
\* gui.py:290-295: the answer goes into the form and the in-memory session
RowAnswer ==
    /\ pc = "self_report"
    /\ \E item_id \in SeqToSet(Questions.item_ids), value \in BOOLEAN :
          /\ responses' = DictPut(responses, item_id, value)
          /\ session' = [session EXCEPT !.screening_responses = responses']
    /\ UNCHANGED <<pc, disk, gui, phase, flagged, todo, crashes, hist, nonPipeVars>>

\* variant: one answer is enough for _finish
Finish_AnyAnswer ==
    /\ pc = "self_report"
    /\ Len(responses) >= 1
    /\ \E o \in SaveOutcomes :
          Checkpoint(o, "srf_exploration", "self_report",
                     WithStage([session EXCEPT !.screening_responses = responses],
                               "SELF_REPORT"),
                     gui, phase, flagged, todo, hist.rescored, hist.report)
    /\ UNCHANGED nonPipeVars

\* gui.py:332-337 emits finished; main.py:235-237 runs in the same call
Finish ==
    /\ pc = "self_report"
    /\ Len(responses) >= Len(Questions.item_ids)
    /\ \E o \in SaveOutcomes :
          Checkpoint(o, "srf_exploration", "self_report",
                     WithStage([session EXCEPT !.screening_responses = responses],
                               "SELF_REPORT"),
                     gui, phase, flagged, todo, hist.rescored, hist.report)
    /\ UNCHANGED nonPipeVars

\* main.py:238-241
OnSelfReportFinished_Exploration ==
    /\ pc = "srf_exploration"
    /\ \E o \in SaveOutcomes :
          Checkpoint(o, "start_exploration", "self_report",
                     WithStage(session, "EXPLORATION"),
                     gui, phase, flagged, todo, hist.rescored, hist.report)
    /\ UNCHANGED nonPipeVars

(***************************************************************************)
(* start_exploration (main.py:162-174, 228-229)                            *)
(***************************************************************************)
\* main.py:166-171: nothing remains, straight to EVALUATION
StartExploration_NoRemaining ==
    /\ pc \in {"start_exploration", "resume_exploration"}
    /\ Remaining(get_flagged_criteria(session), session) = <<>>
    /\ \E o \in SaveOutcomes :
          Checkpoint(o, "main",
                     IF pc = "start_exploration" THEN "self_report" ELSE "down",
                     WithStage(session, "EVALUATION"),
                     gui, phase, get_flagged_criteria(session), todo, hist.rescored, hist.report)
    /\ UNCHANGED nonPipeVars

\* main.py:173-174, 228-229: the exploration form is shown for the rest
\* variant: the window explores every criterion of the bank, flagged or not
StartExploration_Gui_EveryCriterion ==
    /\ pc \in {"start_exploration", "resume_exploration"}
    /\ LET fl == [n \in 1..Len(Questions.criteria["paranoid"]) |->
                    [criterion_id |-> Questions.criteria["paranoid"][n],
                     disorder |-> "paranoid", clarifying_question |-> NoneValue]]
           remaining == Remaining(fl, session)
       IN  /\ remaining # <<>>
           /\ flagged' = fl
           /\ gui' = LoadedGui(remaining)
           /\ phase' = "exploration"
           /\ pc' = "exploration_gui"
    /\ UNCHANGED <<session, disk, responses, todo, crashes, hist, nonPipeVars>>

StartExploration_Gui ==
    /\ pc \in {"start_exploration", "resume_exploration"}
    /\ LET fl == get_flagged_criteria(session)
           remaining == Remaining(fl, session)
       IN  /\ remaining # <<>>
           /\ flagged' = fl
           /\ gui' = LoadedGui(remaining)
           /\ phase' = "exploration"
           /\ pc' = "exploration_gui"
    /\ UNCHANGED <<session, disk, responses, todo, crashes, hist, nonPipeVars>>

(***************************************************************************)
(* ExplorationGUI (gui.py:502-573)                                         *)
(***************************************************************************)
\* gui.py:510-542: a recording with audio was made for the displayed
\* criterion, TranscriptionThread ran and _on_transcription_done shows its text
TranscriptionDone ==
    /\ pc = "exploration_gui"
    /\ gui.current_index < Len(gui.criteria)
    /\ \E reply \in AsrReplies :
          gui' = [gui EXCEPT !.transcript_edit = TranscriptionThread_run(reply),
                             !.accept_enabled = TRUE,
                             !.asr = IF reply.ok THEN "ok" ELSE "error"]
    /\ UNCHANGED <<pc, session, disk, responses, phase, flagged, todo, crashes, hist,
                   nonPipeVars>>

\* gui.py:544-550
Rerecord ==
    /\ pc = "exploration_gui"
    /\ gui.accept_enabled
    /\ gui' = [gui EXCEPT !.transcript_edit = "", !.accept_enabled = FALSE, !.asr = "none"]
    /\ UNCHANGED <<pc, session, disk, responses, phase, flagged, todo, crashes, hist,
                   nonPipeVars>>

\* gui.py:564-573: the displayed text becomes the transcript of the criterion;
\* after the last criterion finished is emitted and on_finished starts
Accept ==
    /\ pc = "exploration_gui"
    /\ gui.accept_enabled
    /\ LET crit    == gui.criteria[gui.current_index + 1]
           results == DictPut(gui.results, crit.criterion_id, gui.transcript_edit)
           last    == gui.current_index + 1 >= Len(gui.criteria)
       IN  /\ gui' = IF last
                     THEN [gui EXCEPT !.results = results,
                                      !.current_index = gui.current_index + 1]
                     ELSE [gui EXCEPT !.results = results,
                                      !.current_index = gui.current_index + 1,
                                      !.transcript_edit = "",
                                      !.accept_enabled = FALSE,
                                      !.asr = "none"]
           /\ pc' = IF ~last THEN "exploration_gui"
                    ELSE IF phase = "exploration" THEN "rating" ELSE "rerating"
           /\ todo' = IF last THEN results ELSE todo
    /\ UNCHANGED <<session, disk, responses, phase, flagged, crashes, hist, nonPipeVars>>

(***************************************************************************)
(* on_finished (main.py:176-226)                                           *)
(***************************************************************************)
\* an exception leaves on_finished: the event loop goes on, but the form has
\* emitted its last signal (current_index is past the end of its criteria)
SlotRaises(exc, crit_id) ==
    /\ pc' = "gui_dead"
    /\ todo' = <<>>
    /\ hist' = [hist EXCEPT !.escaped = exc, !.failed_for = crit_id]
    /\ UNCHANGED <<session, disk, responses, gui, phase, flagged, crashes>>

\* main.py:178-187: one iteration of the loop of the exploration phase
RateOne ==
    /\ pc = "rating"
    /\ todo # <<>>
    /\ LET crit_id    == Head(todo).k
           transcript == Head(todo).v
           rest       == Tail(todo)
           next_pc    == IF rest = <<>> THEN "selecting" ELSE "rating"
       IN  IF ~HasCritData(flagged, crit_id)
           THEN /\ todo' = rest
                /\ pc' = next_pc
                /\ UNCHANGED <<session, disk, responses, gui, phase, flagged, crashes, hist>>
           ELSE
           \E svc \in PipeReplies :
             LET r == evaluate_response(svc)
             IN  IF r.exc # NoException THEN SlotRaises(r.exc, crit_id)
                 ELSE \E o \in SaveOutcomes :
                        Checkpoint(o, next_pc, "gui_dead",
                            [session EXCEPT !.exploration_results =
                                DictPut(@, crit_id,
                                        WithTranscripts(r.result, transcript, NoneValue))],
                            gui, phase, flagged, rest, hist.rescored, hist.report)
    /\ UNCHANGED nonPipeVars

\* variant: once a clarification is needed, every stored result is reloaded
SelectClarification_EveryResult ==
    /\ pc = "selecting"
    /\ NeedsClarification(session.exploration_results, flagged) # <<>>
    /\ phase' = "clarification"
    /\ gui' = LoadedGui([i \in 1..Len(session.exploration_results) |->
                  [criterion_id |-> session.exploration_results[i].k,
                   disorder |-> "paranoid",
                   clarifying_question |->
                       session.exploration_results[i].v.clarifying_question]])
    /\ pc' = "exploration_gui"
    /\ UNCHANGED <<session, disk, responses, flagged, todo, crashes, hist, nonPipeVars>>

\* main.py:189-202: some result needs a clarification, the form is reloaded
SelectClarification ==
    /\ pc = "selecting"
    /\ LET needs_clarification == NeedsClarification(session.exploration_results, flagged)
       IN  /\ needs_clarification # <<>>
           /\ phase' = "clarification"
           /\ gui' = LoadedGui(needs_clarification)
           /\ pc' = "exploration_gui"
    /\ UNCHANGED <<session, disk, responses, flagged, todo, crashes, hist, nonPipeVars>>

\* main.py:189-199, 203-206: nothing to clarify
SelectNone_ToEvaluation ==
    /\ pc = "selecting"
    /\ NeedsClarification(session.exploration_results, flagged) = <<>>
    /\ \E o \in SaveOutcomes :
          Checkpoint(o, "main", "gui_dead", WithStage(session, "EVALUATION"),
                     gui, phase, flagged, todo, hist.rescored, hist.report)
    /\ UNCHANGED nonPipeVars

\* variant: the new result is merged into the old one, whose clarifying
\* question it keeps
ReRateOne_KeepsQuestion ==
    /\ pc = "rerating"
    /\ todo # <<>>
    /\ LET crit_id == Head(todo).k
           clarification_transcript == Head(todo).v
           original_transcript ==
               IF crit_id \in DictKeys(session.exploration_results)
               THEN DictGet(session.exploration_results, crit_id).transcript
               ELSE ""
           rest    == Tail(todo)
           next_pc == IF rest = <<>> THEN "to_evaluation" ELSE "rerating"
       IN  IF ~HasCritData(flagged, crit_id)
           THEN /\ todo' = rest
                /\ pc' = next_pc
                /\ UNCHANGED <<session, disk, responses, gui, phase, flagged, crashes, hist>>
           ELSE
           \E svc \in PipeReplies :
             LET r == evaluate_with_clarification(original_transcript,
                                                  clarification_transcript, svc)
             IN  IF r.exc # NoException THEN SlotRaises(r.exc, crit_id)
                 ELSE \E o \in SaveOutcomes :
                        Checkpoint(o, next_pc, "gui_dead",
                            [session EXCEPT !.exploration_results =
                                DictPut(@, crit_id,
                                        [WithTranscripts(r.result, original_transcript,
                                                         clarification_transcript)
                                           EXCEPT !.clarifying_question =
                                               DictGet(session.exploration_results,
                                                       crit_id).clarifying_question])],
                            gui, phase, flagged, rest, hist.rescored \cup {crit_id}, hist.report)
    /\ UNCHANGED nonPipeVars

\* main.py:209-222: one iteration of the loop of the clarification phase
ReRateOne ==
    /\ pc = "rerating"
    /\ todo # <<>>
    /\ LET crit_id == Head(todo).k
           clarification_transcript == Head(todo).v
           original_transcript ==
               IF crit_id \in DictKeys(session.exploration_results)
               THEN DictGet(session.exploration_results, crit_id).transcript
               ELSE ""
           rest    == Tail(todo)
           next_pc == IF rest = <<>> THEN "to_evaluation" ELSE "rerating"
       IN  IF ~HasCritData(flagged, crit_id)
           THEN /\ todo' = rest
                /\ pc' = next_pc
                /\ UNCHANGED <<session, disk, responses, gui, phase, flagged, crashes, hist>>
           ELSE
           \E svc \in PipeReplies :
             LET r == evaluate_with_clarification(original_transcript,
                                                  clarification_transcript, svc)
             IN  IF r.exc # NoException THEN SlotRaises(r.exc, crit_id)
                 ELSE \E o \in SaveOutcomes :
                        Checkpoint(o, next_pc, "gui_dead",
                            [session EXCEPT !.exploration_results =
                                DictPut(@, crit_id,
                                        WithTranscripts(r.result, original_transcript,
                                                        clarification_transcript))],
                            gui, phase, flagged, rest, hist.rescored \cup {crit_id}, hist.report)
    /\ UNCHANGED nonPipeVars

\* main.py:224-226
ToEvaluation ==
    /\ pc = "to_evaluation"
    /\ \E o \in SaveOutcomes :
          Checkpoint(o, "main", "gui_dead", WithStage(session, "EVALUATION"),
                     gui, phase, flagged, todo, hist.rescored, hist.report)
    /\ UNCHANGED nonPipeVars

(***************************************************************************)
(* main(): after the GUI (main.py:250, 306-318)                            *)
(***************************************************************************)
\* the user closes the window: app.exec() returns and main() goes on with
\* whatever stage the in-memory session holds
CloseWindow ==
    /\ pc \in {"self_report", "exploration_gui", "gui_dead"}
    /\ pc' = "main"
    /\ UNCHANGED <<session, disk, responses, gui, phase, flagged, todo, crashes, hist,
                   nonPipeVars>>

RunEvaluation_KeepsVerdicts ==
    /\ pc = "main"
    /\ session.stage = "EVALUATION"
    /\ \E o \in SaveOutcomes :
          Checkpoint(o, "main", "down", WithStage(session, "REPORT"),
                     gui, phase, flagged, todo, hist.rescored, hist.report)
    /\ UNCHANGED nonPipeVars

\* main.py:308-310 and run_evaluation (main.py:253-258)
RunEvaluation ==
    /\ pc = "main"
    /\ session.stage = "EVALUATION"
    /\ \E o \in SaveOutcomes :
          Checkpoint(o, "main", "down",
                     WithStage([session EXCEPT !.disorder_verdicts =
                                    compute_disorder_verdicts(session, Questions)], "REPORT"),
                     gui, phase, flagged, todo, hist.rescored, hist.report)
    /\ UNCHANGED nonPipeVars

\* main.py:312-314 and run_report (main.py:265-272): generate_pdf returned
RunReport ==
    /\ pc = "main"
    /\ session.stage = "REPORT"
    /\ \E o \in SaveOutcomes :
          Checkpoint(o, "main", "down", WithStage(session, "COMPLETE"),
                     gui, phase, flagged, todo, hist.rescored, "returned")
    /\ UNCHANGED nonPipeVars

RunReport_PdfFails_StillCompletes ==
    /\ pc = "main"
    /\ session.stage = "REPORT"
    /\ \E o \in SaveOutcomes :
          Checkpoint(o, "main", "down", WithStage(session, "COMPLETE"),
                     gui, phase, flagged, todo, hist.rescored, "raised")
    /\ UNCHANGED nonPipeVars

\* main.py:270: generate_pdf raises, the exception leaves main()
RunReport_PdfFails ==
    /\ pc = "main"
    /\ session.stage = "REPORT"
    /\ Dead
    /\ hist' = [hist EXCEPT !.escaped = "none", !.failed_for = "none", !.report = "raised"]
    /\ UNCHANGED <<disk, crashes, nonPipeVars>>

\* main.py:316-318 or no branch taken: main() returns
MainEnd ==
    /\ pc = "main"
    /\ session.stage \notin {"EVALUATION", "REPORT"}
    /\ Dead
    /\ hist' = [hist EXCEPT !.escaped = "none", !.failed_for = "none"]
    /\ UNCHANGED <<disk, crashes, nonPipeVars>>

\* the process is killed (power loss, kill) between two steps
Crash ==
    /\ pc # "down"
    /\ crashes < MaxCrashes
    /\ crashes' = crashes + 1
    /\ Dead
    /\ hist' = [hist EXCEPT !.escaped = "none", !.failed_for = "none"]
    /\ UNCHANGED <<disk, nonPipeVars>>

Next ==
    \/ MainNewSession
    \/ MainResume
    \/ RowAnswer
    \/ Finish
    \/ OnSelfReportFinished_Exploration
    \/ StartExploration_NoRemaining
    \/ StartExploration_Gui
    \/ TranscriptionDone
    \/ Rerecord
    \/ Accept
    \/ RateOne
    \/ SelectClarification
    \/ SelectNone_ToEvaluation
    \/ ReRateOne
    \/ ToEvaluation
    \/ CloseWindow
    \/ RunEvaluation
    \/ RunReport
    \/ RunReport_PdfFails
    \/ MainEnd
    \/ Crash

Spec == Init /\ [][Next]_vars

(***************************************************************************)
(* SpecRater: evaluate_response on every bounded service reply             *)
(***************************************************************************)
\* a fenced JSON object followed by up to MaxTrailing further lines
FencedTexts ==
    {<<"FENCE", "OBJ", "FENCE">> \o rest : rest \in SeqsUpTo(Tokens, MaxTrailing)}

\* one reply of the scoring service: the text it carries and, when the text
\* holds a JSON object, the members of that object
RaterReply(raw, obj) == [transport |-> "ok", raw |-> raw, obj |-> obj]

RaterInit ==
    /\ rater_out = [called |-> FALSE, exc |-> NoException, result |-> Null]
    /\ flagger = FlagIdle
    /\ AudioInit
    /\ StoreInit
    /\ TextInit
    /\ PipeInit
    /\ \/ rater_in = [transport |-> "error", raw |-> <<>>, obj |-> RaterIdle.obj]
       \/ \E raw \in RawTexts :
             /\ "OBJ" \notin SeqToSet(raw)
             /\ rater_in = RaterReply(raw, RaterIdle.obj)
       \/ \E raw \in RawTexts \cup FencedTexts, obj \in ObjContents :
             /\ "OBJ" \in SeqToSet(raw)
             /\ rater_in = RaterReply(raw, obj)

\* the call evaluate_response(transcript, criterion, language)
RaterEvaluate ==
    /\ ~rater_out.called
    /\ LET r == evaluate_response(rater_in)
       IN  rater_out' = [called |-> TRUE, exc |-> r.exc, result |-> r.result]
    /\ UNCHANGED <<rater_in, pipeVars, flagVars, audioVars, storeVars, textVars>>

RaterNext == RaterEvaluate

SpecRater == RaterInit /\ [][RaterNext]_vars

(***************************************************************************)
(* SpecFlag: get_flagged_criteria on every bounded answer dict, called     *)
(* repeatedly and on the same answers in another insertion order           *)
(***************************************************************************)
\* keys of session["screening_responses"]: the items of the bank and one id
\* the bank does not know (main.py:92-94 skips it)
ItemKeys == SeqToSet(Questions.item_ids) \cup {"Q9"}

\* dicts item_id -> answered_yes, in every insertion order
AnswerDicts ==
    {d \in SeqsUpTo([k : ItemKeys, v : BOOLEAN], Cardinality(ItemKeys)) :
        \A i, j \in 1..Len(d) : d[i].k = d[j].k => i = j}

FlagInit ==
    /\ \E a \in AnswerDicts, b \in AnswerDicts :
          /\ SeqToSet(a) = SeqToSet(b)
          /\ flagger = [FlagIdle EXCEPT !.answers = a, !.reordered = b]
    /\ rater_in = RaterIdle
    /\ rater_out = [called |-> FALSE, exc |-> NoException, result |-> Null]
    /\ AudioInit
    /\ StoreInit
    /\ TextInit
    /\ PipeInit

\* get_flagged_criteria(session, questions) on the answers
FlagCall ==
    /\ Len(flagger.out) < MaxCalls
    /\ flagger' = [flagger EXCEPT !.out =
          Append(@, get_flagged_criteria([screening_responses |-> flagger.answers]))]
    /\ UNCHANGED <<raterVars, pipeVars, audioVars, storeVars, textVars>>

\* get_flagged_criteria on the same answers inserted in another order
FlagCallReordered ==
    /\ ~flagger.out_reordered.called
    /\ flagger' = [flagger EXCEPT !.out_reordered =
          [called |-> TRUE,
           list |-> get_flagged_criteria([screening_responses |-> flagger.reordered])]]
    /\ UNCHANGED <<raterVars, pipeVars, audioVars, storeVars, textVars>>

FlagNext == FlagCall \/ FlagCallReordered

SpecFlag == FlagInit /\ [][FlagNext]_vars

(***************************************************************************)
(* SpecRecorder: one AudioRecorder driven by RecordingThread.run           *)
(* (record_blocking), the callback thread of the input stream, and a       *)
(* manual stop from the GUI thread. Time is in seconds. A block is the     *)
(* number of its arrival; loud says that its RMS is at or above the        *)
(* silence threshold.                                                      *)
(*                                                                         *)
(* Timing: a callback returns within the second it was entered, and the    *)
(* loop of record_blocking (sleep 0.1 s, then the ceiling test) runs at    *)
(* least once a second. The clock runs while that loop runs.               *)
(*                                                                         *)
(* Stream: "none" -> "created" (InputStream(...)) -> "active" (start) ->   *)
(* "stopped" (stop) -> "closed" (close). stop() returns after the callback *)
(* in progress has returned; stop() and close() report no error on a       *)
(* stream that is not active (ignore_errors); start() on a closed stream   *)
(* raises.                                                                 *)
(***************************************************************************)
audio_callback_StrictlyLonger(rec, block, loud, now) ==
    LET appended == [rec EXCEPT !.frames = Append(@, block)]
    IN  IF ~loud
        THEN IF rec.silence_start = NoTime
             THEN [appended EXCEPT !.silence_start = now]
             ELSE IF now - rec.silence_start > rec.silence_duration
             THEN [appended EXCEPT !.stopped_by_silence = TRUE, !.is_recording = FALSE]
             ELSE appended
        ELSE [appended EXCEPT !.silence_start = NoTime]

audio_callback_NoReset(rec, block, loud, now) ==
    LET appended == [rec EXCEPT !.frames = Append(@, block)]
    IN  IF ~loud
        THEN IF rec.silence_start = NoTime
             THEN [appended EXCEPT !.silence_start = now]
             ELSE IF now - rec.silence_start >= rec.silence_duration
             THEN [appended EXCEPT !.stopped_by_silence = TRUE, !.is_recording = FALSE]
             ELSE appended
        ELSE appended

\* exploration_engine.py:66-78: _audio_callback after the test of line 63
audio_callback(rec, block, loud, now) ==
    LET appended == [rec EXCEPT !.frames = Append(@, block)]
    IN  IF ~loud
        THEN IF rec.silence_start = NoTime
             THEN [appended EXCEPT !.silence_start = now]
             ELSE IF now - rec.silence_start >= rec.silence_duration
             THEN [appended EXCEPT !.stopped_by_silence = TRUE, !.is_recording = FALSE]
             ELSE appended
        ELSE [appended EXCEPT !.silence_start = NoTime]

AtCeiling_Never(rec, start_time, now) == FALSE

\* exploration_engine.py:115: the ceiling test of record_blocking
AtCeiling(rec, start_time, now) == now - start_time >= rec.max_duration

\* stream.stop() (sounddevice): an active stream stops, otherwise no effect
StreamStop(stream) == IF stream = "active" THEN "stopped" ELSE stream

\* indata.copy(): the frames of the block with the given arrival number
BlockArray(block) == [n \in 1..FramesPerBlock |-> [block |-> block, frame |-> n]]

\* variant: the newest block comes first
np_concatenate_NewestFirst(frames) ==
    [k \in 1..(Len(frames) * FramesPerBlock) |->
        BlockArray(frames[Len(frames) - ((k - 1) \div FramesPerBlock)])
            [((k - 1) % FramesPerBlock) + 1]]

\* np.concatenate(self._frames, axis=0); np.array([]) for no block
\* (exploration_engine.py:120-123)
np_concatenate(frames) ==
    [k \in 1..(Len(frames) * FramesPerBlock) |->
        BlockArray(frames[((k - 1) \div FramesPerBlock) + 1])
            [((k - 1) % FramesPerBlock) + 1]]

\* sum(f.shape[0] for f in self._frames)
RECURSIVE TotalFrames(_)
TotalFrames(frames) ==
    IF frames = <<>> THEN 0 ELSE Len(BlockArray(Head(frames))) + TotalFrames(Tail(frames))

\* exploration_engine.py:149-155: total_frames / self.sample_rate, as the
\* fraction of the two; 0.0 without a block
duration_seconds(rec) ==
    IF rec.frames = <<>> THEN [frames |-> 0, rate |-> 1]
    ELSE [frames |-> TotalFrames(rec.frames), rate |-> SAMPLE_RATE]

\* exploration_engine.py:125-146: the WAV file of the samples
get_wav_bytes(audio_data) ==
    [nchannels |-> 1, sampwidth |-> 2, framerate |-> SAMPLE_RATE, frames |-> audio_data]

RbAt(p) == threads.rb.pc = p
CbIdle  == threads.cb.pc = "idle"

\* RecordingThread.run calls record_blocking; start_recording resets the
\* fields (exploration_engine.py:82-85)
RB_Begin ==
    /\ RbAt("idle")
    /\ recorder' = [recorder EXCEPT !.frames = <<>>, !.is_recording = TRUE,
                                     !.silence_start = NoTime,
                                     !.stopped_by_silence = FALSE]
    /\ threads' = [threads EXCEPT !.rb.pc = "open"]
    /\ UNCHANGED <<clock, heard, nonAudioVars>>

\* exploration_engine.py:87-93: sd.InputStream(...) returns a stream, or
\* raises when there is no input device
RB_OpenStream ==
    /\ RbAt("open")
    /\ \E ok \in BOOLEAN :
          IF ok
          THEN /\ recorder' = [recorder EXCEPT !.stream = "created"]
               /\ threads' = [threads EXCEPT !.rb.pc = "start"]
          ELSE /\ threads' = [threads EXCEPT !.rb.pc = "raised"]
               /\ UNCHANGED recorder
    /\ UNCHANGED <<clock, heard, nonAudioVars>>

\* exploration_engine.py:94 and 110: self._stream.start(); start_time
RB_StartStream ==
    /\ RbAt("start")
    /\ IF recorder.stream = "closed"
       THEN /\ threads' = [threads EXCEPT !.rb.pc = "raised"]
            /\ UNCHANGED recorder
       ELSE /\ recorder' = [recorder EXCEPT !.stream = "active"]
            /\ threads' = [threads EXCEPT !.rb.pc = "loop", !.rb.start_time = clock]
    /\ UNCHANGED <<clock, heard, nonAudioVars>>

\* exploration_engine.py:113: while self._is_recording
RB_LoopTest ==
    /\ RbAt("loop")
    /\ threads' = [threads EXCEPT !.rb.pc = IF recorder.is_recording THEN "sleep"
                                             ELSE "finally"]
    /\ UNCHANGED <<recorder, clock, heard, nonAudioVars>>

\* exploration_engine.py:114-116: time.sleep(0.1), then the ceiling test
RB_Sleep ==
    /\ RbAt("sleep")
    /\ threads' = [threads EXCEPT
          !.rb.pc = IF AtCeiling(recorder, threads.rb.start_time, clock)
                    THEN "finally" ELSE "loop",
          !.rb.checked_at = clock]
    /\ UNCHANGED <<recorder, clock, heard, nonAudioVars>>

\* exploration_engine.py:118 -> 98: stop_recording clears the flag
RB_FinallyFlag ==
    /\ RbAt("finally")
    /\ recorder' = [recorder EXCEPT !.is_recording = FALSE]
    /\ threads' = [threads EXCEPT !.rb.pc = "finally_stop"]
    /\ UNCHANGED <<clock, heard, nonAudioVars>>

\* variant: stop() returns while the callback is still running
RB_FinallyStop_DoesNotWait ==
    /\ RbAt("finally_stop")
    /\ recorder' = [recorder EXCEPT !.stream = StreamStop(@)]
    /\ threads' = [threads EXCEPT !.rb.pc = "finally_close"]
    /\ UNCHANGED <<clock, heard, nonAudioVars>>

\* exploration_engine.py:99-100: self._stream.stop()
RB_FinallyStop ==
    /\ RbAt("finally_stop")
    /\ CbIdle
    /\ recorder' = [recorder EXCEPT !.stream = StreamStop(@)]
    /\ threads' = [threads EXCEPT !.rb.pc = "finally_close"]
    /\ UNCHANGED <<clock, heard, nonAudioVars>>

\* exploration_engine.py:101: self._stream.close()
RB_FinallyClose ==
    /\ RbAt("finally_close")
    /\ recorder' = [recorder EXCEPT !.stream = "closed"]
    /\ threads' = [threads EXCEPT !.rb.pc = "result"]
    /\ UNCHANGED <<clock, heard, nonAudioVars>>

\* exploration_engine.py:120-123: the recording is the concatenated frames
RB_Return ==
    /\ RbAt("result")
    /\ threads' = [threads EXCEPT !.rb.pc = "returned", !.rb.result = np_concatenate(recorder.frames)]
    /\ UNCHANGED <<recorder, clock, heard, nonAudioVars>>

\* the stream delivers a block: _audio_callback is entered and tests
\* self._is_recording (exploration_engine.py:61-64)
CB_Deliver ==
    /\ recorder.stream = "active"
    /\ CbIdle
    /\ heard.blocks < MaxBlocks
    /\ clock <= MaxBlockTime
    /\ \E loud \in BOOLEAN :
          IF recorder.is_recording
          THEN /\ heard' = [heard EXCEPT
                     !.blocks = @ + 1,
                     !.first_quiet = IF ~loud /\ @ = NoTime THEN clock ELSE @,
                     !.quiet_since = IF loud THEN NoTime
                                     ELSE IF @ = NoTime THEN clock ELSE @]
               /\ threads' = [threads EXCEPT
                     !.cb = [pc |-> "body", block |-> heard.blocks + 1, loud |-> loud]]
          ELSE /\ heard' = [heard EXCEPT !.blocks = @ + 1]
               /\ UNCHANGED threads
    /\ UNCHANGED <<recorder, clock, nonAudioVars>>

\* exploration_engine.py:66-78
CB_Body ==
    /\ threads.cb.pc = "body"
    /\ recorder' = audio_callback(recorder, threads.cb.block, threads.cb.loud, clock)
    /\ threads' = [threads EXCEPT !.cb.pc = "idle"]
    /\ UNCHANGED <<clock, heard, nonAudioVars>>

\* gui.py:503-504 -> exploration_engine.py:98: the user presses the button
\* while recorder.is_recording, stop_recording clears the flag
UI_StopFlag ==
    /\ threads.ui.pc = "idle"
    /\ recorder.is_recording
    /\ recorder' = [recorder EXCEPT !.is_recording = FALSE]
    /\ threads' = [threads EXCEPT !.ui.pc = "stop"]
    /\ heard' = [heard EXCEPT !.stop_frames = recorder.frames]
    /\ UNCHANGED <<clock, nonAudioVars>>

\* exploration_engine.py:99-100: without a _stream attribute nothing is done
UI_StopStream ==
    /\ threads.ui.pc = "stop"
    /\ CbIdle
    /\ recorder' = [recorder EXCEPT !.stream = StreamStop(@)]
    /\ threads' = [threads EXCEPT !.ui.pc = IF recorder.stream = "none" THEN "done"
                                             ELSE "close"]
    /\ UNCHANGED <<clock, heard, nonAudioVars>>

\* exploration_engine.py:101
UI_Close ==
    /\ threads.ui.pc = "close"
    /\ recorder' = [recorder EXCEPT !.stream = "closed"]
    /\ threads' = [threads EXCEPT !.ui.pc = "done"]
    /\ UNCHANGED <<clock, heard, nonAudioVars>>

\* a second passes
Tick ==
    /\ threads.rb.pc \in {"loop", "sleep"}
    /\ threads.rb.checked_at = clock
    /\ CbIdle
    /\ threads.ui.pc \in {"idle", "done"}
    /\ clock < MaxTime
    /\ clock' = clock + 1
    /\ UNCHANGED <<recorder, threads, heard, nonAudioVars>>

RecorderNext ==
    \/ RB_Begin \/ RB_OpenStream \/ RB_StartStream \/ RB_LoopTest \/ RB_Sleep
    \/ RB_FinallyFlag \/ RB_FinallyStop \/ RB_FinallyClose \/ RB_Return
    \/ CB_Deliver \/ CB_Body
    \/ UI_StopFlag \/ UI_StopStream \/ UI_Close
    \/ Tick

RecorderInit ==
    /\ rater_in = RaterIdle
    /\ rater_out = [called |-> FALSE, exc |-> NoException, result |-> Null]
    /\ flagger = FlagIdle
    /\ AudioInit
    /\ StoreInit
    /\ TextInit
    /\ PipeInit

SpecRecorder == RecorderInit /\ [][RecorderNext]_vars

(***************************************************************************)
(* Claims                                                                  *)
(***************************************************************************)
StageStep(a, b) == StageIndex(b) \in {StageIndex(a), StageIndex(a) + 1}

\* C1: in every step the stage, in memory and on disk, stays or moves to its
\* immediate successor in INIT -> SELF_REPORT -> EXPLORATION -> EVALUATION ->
\* REPORT -> COMPLETE; a resume starts from the persisted stage.
C1_StageMovesToSuccessorOnly ==
    [][/\ (session # Null /\ session' # Null) => StageStep(session.stage, session'.stage)
       /\ (disk.kind = "complete" /\ disk'.kind = "complete")
              => StageStep(load_session(disk).stage, load_session(disk').stage)
       /\ (session = Null /\ session' # Null /\ disk.kind = "complete")
              => session'.stage = load_session(disk).stage]_vars

\* every flagged criterion has a result, and no unresolved result lacks a
\* clarification transcript
ExplorationFinal(sess) ==
    /\ \A i \in 1..Len(get_flagged_criteria(sess)) :
          get_flagged_criteria(sess)[i].criterion_id \in DictKeys(sess.exploration_results)
    /\ \A i \in 1..Len(sess.exploration_results) :
          sess.exploration_results[i].v.unresolved
             => sess.exploration_results[i].v.clarification_transcript # NoneValue

\* C2: every step that sets the stage to EVALUATION, in memory or on disk,
\* leaves a session in which every flagged criterion has an ExplorationResult
\* and no unresolved result lacks a clarification transcript.
C2_EvaluationOnlyAfterExploration ==
    [][/\ (session # Null /\ session' # Null
            /\ session.stage # "EVALUATION" /\ session'.stage = "EVALUATION")
              => ExplorationFinal(session')
       /\ (disk.kind = "complete" /\ disk'.kind = "complete"
            /\ load_session(disk).stage # "EVALUATION"
            /\ load_session(disk').stage = "EVALUATION")
              => ExplorationFinal(load_session(disk'))]_vars

\* the text handed to evaluate_response holds no JSON object
NoJsonObject(svc) == svc.transport = "ok" /\ "OBJ" \notin SeqToSet(svc.raw)

\* C3: for a raw text without any parseable JSON object evaluate_response
\* returns the fallback record: score Unknown, unresolved, confidence 0.0.
C3_UnparseableGivesUnknownFallback ==
    (rater_out.called /\ NoJsonObject(rater_in))
        => /\ rater_out.exc = NoException
           /\ rater_out.result.score = Unknown
           /\ rater_out.result.unresolved
           /\ rater_out.result.confidence = 0

\* C4: for every raw text the service delivers evaluate_response returns a
\* record and raises nothing.
C4_NormalizationNeverRaises ==
    (rater_out.called /\ rater_in.transport = "ok") => rater_out.exc = NoException

\* the reply was parsed to its JSON object
ParsedObject(svc) ==
    /\ svc.transport = "ok"
    /\ LET parsed == ParseRaw(StripFence(Strip(svc.raw)), svc.obj)
       IN  parsed.exc = NoException /\ parsed.kind = "OBJ"

\* C5: every record evaluate_response returns has score Unknown only with
\* unresolved = true; and when the parsed object has no score, the sentinel as
\* score, or a score that cannot be coerced to an integer (its confidence
\* being absent or numeric), evaluate_response returns a record with score
\* Unknown and unresolved = true.
C5_UnknownImpliesUnresolved ==
    rater_out.called
        => /\ (rater_out.exc = NoException /\ rater_out.result.score = Unknown)
                => rater_out.result.unresolved
           /\ (ParsedObject(rater_in)
                  /\ rater_in.obj.score.tag \in {"missing", "sentinel", "str", "null", "inf"}
                  /\ rater_in.obj.confidence.tag \in {"missing", "num"})
                => /\ rater_out.exc = NoException
                   /\ rater_out.result.score = Unknown
                   /\ rater_out.result.unresolved

IsFallback(result) ==
    result.score = Unknown /\ result.unresolved /\ result.confidence = 0

\* C6: when the scoring call failed with a transport error, on_finished went
\* on and the session holds the fallback result for that criterion.
C6_TransportErrorBecomesFallback ==
    hist.escaped = "APIConnectionError"
        => /\ pc # "gui_dead"
           /\ hist.failed_for \in DictKeys(session.exploration_results)
           /\ IsFallback(DictGet(session.exploration_results, hist.failed_for))

\* C7: after a failed transcription the transcript shown for acceptance is
\* the empty text, and no stored transcript is the error text.
C7_FailedTranscriptionIsEmptyText ==
    /\ gui.asr = "error" => gui.transcript_edit = ""
    /\ \A i \in 1..Len(gui.results) : gui.results[i].v # "[Transcription error: e]"

\* C8: the session file is always absent or one complete record, also after
\* a crash during save_session.
C8_SaveLeavesCompleteRecord ==
    disk.kind \in {"none", "complete"}

\* C9: a running process never holds a stage ahead of the stage of the
\* persisted record (a failed checkpoint leaves nothing for later code to
\* act on).
C9_StageNotAheadOfCheckpoint ==
    (session # Null /\ disk.kind = "complete")
        => StageIndex(session.stage) <= StageIndex(load_session(disk).stage)

\* C10: whenever the clarification round is started, none of the criteria
\* it selects has been re-scored with a clarification answer before.
C10_ClarificationAtMostOnce ==
    [][(phase # "clarification" /\ phase' = "clarification")
          => \A i \in 1..Len(gui'.criteria) :
                gui'.criteria[i].criterion_id \notin hist.rescored]_vars

\* a resumed process found nothing left to explore although a criterion
\* re-scored with an empty clarification answer is still unresolved
C10_Witness ==
    /\ pc = "main"
    /\ crashes >= 1
    /\ gui = NoGui
    /\ flagged # <<>>
    /\ session.stage = "EVALUATION"
    /\ \E c \in hist.rescored :
          /\ c \in DictKeys(session.exploration_results)
          /\ DictGet(session.exploration_results, c).unresolved
          /\ DictGet(session.exploration_results, c).clarification_transcript = ""

\* every list get_flagged_criteria returned so far, for either insertion order
FlagLists ==
    {flagger.out[n] : n \in 1..Len(flagger.out)}
    \cup (IF flagger.out_reordered.called THEN {flagger.out_reordered.list} ELSE {})

\* C12 as stated: get_flagged_criteria returns the same list, entries and
\* order, on every call and for every insertion order of the same answers.
C12_SameListForEveryOrder ==
    \A L1 \in FlagLists, L2 \in FlagLists : L1 = L2

\* C12 as amended: repeated calls on one answer dict return the same list, and
\* for every insertion order of the same answers the returned entries
\* (criterion and category) are the same set, each criterion once.
C12_SameEntriesForEveryOrder ==
    /\ \A m, n \in 1..Len(flagger.out) : flagger.out[m] = flagger.out[n]
    /\ \A L1 \in FlagLists, L2 \in FlagLists :
          /\ SeqToSet(L1) = SeqToSet(L2)
          /\ Len(L1) = Len(L2)

\* both orders were flagged twice over and the lists differ in order only
C12_Witness ==
    /\ Len(flagger.out) = MaxCalls
    /\ flagger.out_reordered.called
    /\ flagger.answers # flagger.reordered
    /\ flagger.out[1] # flagger.out_reordered.list
    /\ Len(flagger.out[1]) >= 2

\* the answers that put criterion c into the flagged set
Referencing(A, c) ==
    {i \in 1..Len(A) :
        /\ A[i].v
        /\ A[i].k \in SeqToSet(Questions.item_ids)
        /\ c \in SeqToSet(Questions.maps_to_criteria[A[i].k])
        /\ c \in SeqToSet(Questions.criteria[Questions.item_disorder[A[i].k]])}

FirstItem(A, c) == CHOOSE i \in Referencing(A, c) : \A j \in Referencing(A, c) : i <= j

PosIn(seq, x) ==
    CHOOSE i \in 1..Len(seq) : seq[i] = x /\ \A j \in 1..Len(seq) : seq[j] = x => i <= j

\* c is encountered before d when the answers A are iterated
EncounteredBefore(A, c, d) ==
    \/ FirstItem(A, c) < FirstItem(A, d)
    \/ /\ FirstItem(A, c) = FirstItem(A, d)
       /\ PosIn(Questions.maps_to_criteria[A[FirstItem(A, c)].k], c)
            < PosIn(Questions.maps_to_criteria[A[FirstItem(A, c)].k], d)

\* C13: in every list get_flagged_criteria returns a criterion id appears at
\* most once; a criterion appears exactly when some yes-answered item refers
\* to it (never when only no-answered items do); its entry is the one of its
\* first encounter: category of the first referring item, position in the
\* order of first encounters.
C13_FlaggedOnceFirstEncounterKept ==
    \A n \in 1..Len(flagger.out) :
        LET L == flagger.out[n]
            A == flagger.answers
        IN  /\ \A p, q \in 1..Len(L) : L[p].criterion_id = L[q].criterion_id => p = q
            /\ \A p \in 1..Len(L) : Referencing(A, L[p].criterion_id) # {}
            /\ \A d \in SeqToSet(Questions.disorder_keys) :
                  \A c \in SeqToSet(Questions.criteria[d]) :
                     Referencing(A, c) # {} => \E p \in 1..Len(L) : L[p].criterion_id = c
            /\ \A p \in 1..Len(L) :
                  L[p].disorder =
                     Questions.item_disorder[A[FirstItem(A, L[p].criterion_id)].k]
            /\ \A p, q \in 1..Len(L) :
                  p < q => EncounteredBefore(A, L[p].criterion_id, L[q].criterion_id)

\* two yes-answered items refer to the same criterion, and one no-answered
\* item is in the dict of another call
C13_Witness ==
    /\ Len(flagger.out) >= 1
    /\ \E c \in {"PPD_1"} : Cardinality(Referencing(flagger.answers, c)) >= 2
    /\ Len(flagger.out[1]) = 2

\* C14: for every session value a process holds, load_session after
\* save_session of it returns a value equal in stage, screening answers,
\* exploration results and verdicts.
C14_SaveLoadRoundTrip ==
    session # Null
        => load_session(save_session(disk, session, "ok")) = session

\* a reloadable session at REPORT with verdicts, an integer score, an Unknown
\* score and a result without clarification transcript
C14_Witness ==
    /\ session # Null
    /\ session.stage = "REPORT"
    /\ disk.kind = "complete"
    /\ load_session(disk) = session
    /\ session.disorder_verdicts # <<>>
    /\ \E i, k \in 1..Len(session.exploration_results) :
          /\ session.exploration_results[i].v.score = Unknown
          /\ session.exploration_results[k].v.score.tag = "int"
          /\ session.exploration_results[k].v.clarification_transcript = NoneValue

\* C15: every step that changes a field of the in-memory session leaves the
\* session file equal to the in-memory session.
C15_PersistedAfterEveryMutation ==
    [][(session # Null /\ session' # Null /\ session' # session)
          => (disk'.kind = "complete" /\ load_session(disk') = session')]_vars

\* the criteria of the flagged set of sess that have no result in sess
Unexplored(sess) ==
    {c \in {get_flagged_criteria(sess)[i].criterion_id :
                i \in 1..Len(get_flagged_criteria(sess))} :
        c \notin DictKeys(sess.exploration_results)}

\* C16: a resumed process holds the persisted record and continues at its
\* stage; the exploration form it opens lists exactly the criteria flagged by
\* the persisted answers that have no persisted result; and in the exploration
\* phase no transcript is accepted and no result is stored for a criterion
\* that has a persisted result.
C16_ResumeExploresOnlyUnexplored ==
    [][/\ (session = Null /\ session' # Null /\ disk.kind = "complete")
            => /\ session' = load_session(disk)
               /\ (session'.stage \in {"SELF_REPORT", "EXPLORATION"})
                     <=> (pc' = "resume_exploration")
       /\ (pc = "resume_exploration" /\ pc' = "exploration_gui")
            => /\ flagged' = get_flagged_criteria(load_session(disk))
               /\ {gui'.criteria[i].criterion_id : i \in 1..Len(gui'.criteria)}
                     = Unexplored(load_session(disk))
       /\ (pc = "exploration_gui" /\ phase = "exploration" /\ gui'.results # gui.results)
            => \A c \in DictKeys(gui'.results) :
                  c \notin DictKeys(load_session(disk).exploration_results)
       /\ (pc = "rating" /\ session' # Null
             /\ session'.exploration_results # session.exploration_results)
            => Head(todo).k \notin DictKeys(load_session(disk).exploration_results)]_vars

\* a resumed process has scored the one criterion that was left; the result
\* of the other was persisted before the restart
C16_Witness ==
    /\ crashes >= 1
    /\ pc = "selecting"
    /\ phase = "exploration"
    /\ Len(flagged) = 2
    /\ Len(gui.criteria) = 1
    /\ Len(session.exploration_results) = 2
    /\ disk.kind = "complete"
    /\ load_session(disk) = session

(***************************************************************************)
(* SpecCapture: the background threads of one ExplorationGUI. A            *)
(* RecordingThread is "starting" until start_recording has run, in "loop"  *)
(* while record_blocking loops with its stream open, "emitted" once        *)
(* finished.emit has queued the slot and run has returned, "done" when the *)
(* GUI thread has run _on_recording_done, "failed" when sd.InputStream     *)
(* raised. A TranscriptionThread is "running", "emitted", "done".          *)
(***************************************************************************)
CaptureCriteria == 2

\* the criterion on display and the round it is shown in
Slot(c) == [round |-> IF c.loaded THEN "clarification" ELSE "exploration",
            index |-> c.current_index]

\* criterion_id of the criterion on display; both rounds show the first
\* CaptureCriteria criteria of the bank
DisplayedId(index) == Questions.criteria["paranoid"][index + 1]

\* the text transcribe_audio (or its error branch) gives for the audio of
\* recording thread i
TranscriptOf(i) == "transcript of recording " \o ToString(i)

\* replies of the scoring service that evaluate_response turns into a result
ScoredReplies == {svc \in PipeReplies : evaluate_response(svc).exc = NoException}

\* main.py:178-187 and 209-222: the loop of on_finished over the accepted
\* transcripts; reply[crit_id] is the reply of the scoring service for it
RECURSIVE StoreResults(_, _, _, _)
StoreResults(stored, transcripts, reply, round) ==
    IF transcripts = <<>> THEN stored
    ELSE LET crit_id == Head(transcripts).k
             text    == Head(transcripts).v
             result  == evaluate_response(reply[crit_id]).result
             original_transcript ==
                 IF crit_id \in DictKeys(stored) THEN DictGet(stored, crit_id).transcript
                 ELSE ""
         IN  StoreResults(
                 DictPut(stored, crit_id,
                         IF round = "exploration"
                         THEN WithTranscripts(result, text, NoneValue)
                         ELSE WithTranscripts(result, original_transcript, text)),
                 Tail(transcripts), reply, round)

RecRunning(r)   == r.pc \in {"starting", "loop"}
TransRunning(t) == t.pc = "running"

\* self.recorder.is_recording
IsRecording(c) == c.recorder # 0 /\ c.recs[c.recorder].is_recording

\* exploration_engine.py:96-101: stop_recording of self.recorder
StopRecording(c) ==
    [c EXCEPT !.recs[c.recorder].is_recording = FALSE,
              !.recs[c.recorder].stream_open = FALSE]

\* record_blocking has returned and run has emitted finished
Returned(r, audio) ==
    [r EXCEPT !.pc = "emitted", !.is_recording = FALSE, !.stream_open = FALSE,
              !.audio = audio]

\* gui.py:552-562: _stop_threads; each bounded wait ends with the thread
\* finished or with the timeout
StopThreads(c) ==
    LET c1 == IF IsRecording(c) THEN StopRecording(c) ELSE c
        AfterRecWait ==
            IF c1.rec_thread # 0 /\ RecRunning(c1.recs[c1.rec_thread])
            THEN {c1} \cup {[c1 EXCEPT !.recs[c1.rec_thread] = Returned(@, audio)] :
                               audio \in {"empty", "speech"}}
            ELSE {c1}
        AfterTransWait(c2) ==
            IF c2.trans_thread # 0 /\ TransRunning(c2.trans[c2.trans_thread])
            THEN {c2, [c2 EXCEPT !.trans[c2.trans_thread].pc = "emitted"]}
            ELSE {c2}
    IN  UNION {AfterTransWait(c2) : c2 \in AfterRecWait}

\* gui.py:502-520: the Record button; _start_recording makes a new
\* AudioRecorder and starts a RecordingThread for it
Cap_ToggleRecording ==
    /\ ~capture.closed
    /\ capture.current_index < CaptureCriteria
    /\ IF IsRecording(capture)
       THEN capture' = StopRecording(capture)
       ELSE /\ Len(capture.recs) < MaxCaptures
            /\ capture' = [capture EXCEPT
                  !.recs = Append(@, [pc |-> "starting", is_recording |-> FALSE,
                                      stream_open |-> FALSE, audio |-> "none",
                                      slot |-> Slot(capture)]),
                  !.transcript_edit = "",
                  !.recorder = Len(capture.recs) + 1,
                  !.rec_thread = Len(capture.recs) + 1,
                  !.accept_btn = FALSE,
                  !.rerecord_btn = FALSE]
    /\ UNCHANGED nonCaptureVars

\* exploration_engine.py:80-94: start_recording in the recording thread; the
\* flag is set before the stream is opened
Cap_StartRecording ==
    /\ \E i \in 1..Len(capture.recs) :
          /\ capture.recs[i].pc = "starting"
          /\ \E ok \in BOOLEAN :
                capture' = [capture EXCEPT !.recs[i] =
                               [@ EXCEPT !.pc = IF ok THEN "loop" ELSE "failed",
                                         !.is_recording = TRUE,
                                         !.stream_open = ok]]
    /\ UNCHANGED nonCaptureVars

\* exploration_engine.py:75-76: the callback stops the recorder on silence
Cap_SilenceStop ==
    /\ \E i \in 1..Len(capture.recs) :
          /\ capture.recs[i].pc = "loop"
          /\ capture.recs[i].is_recording
          /\ capture.recs[i].stream_open
          /\ capture' = [capture EXCEPT !.recs[i].is_recording = FALSE]
    /\ UNCHANGED nonCaptureVars

\* exploration_engine.py:113-123, gui.py:355-356: the loop ends (flag cleared
\* or ceiling), the stream is closed, finished is emitted
Cap_RecordingReturns ==
    /\ \E i \in 1..Len(capture.recs) :
          /\ capture.recs[i].pc = "loop"
          /\ \E audio \in {"empty", "speech"} :
                capture' = [capture EXCEPT !.recs[i] = Returned(@, audio)]
    /\ UNCHANGED nonCaptureVars

\* gui.py:522-536: _on_recording_done
Cap_OnRecordingDone ==
    /\ \E i \in 1..Len(capture.recs) :
          /\ capture.recs[i].pc = "emitted"
          /\ IF capture.recs[i].audio = "empty"
             THEN capture' = [capture EXCEPT !.recs[i].pc = "done", !.rerecord_btn = TRUE]
             ELSE capture' = [capture EXCEPT
                        !.recs[i].pc = "done",
                        !.trans = Append(@, [pc |-> "running", rec |-> i]),
                        !.trans_thread = Len(capture.trans) + 1]
    /\ UNCHANGED nonCaptureVars

\* the variables on_finished leaves alone
onFinishedFrame ==
    <<raterVars, flagVars, recorderVars, storeVars, textVars,
      pc, responses, gui, phase, flagged, todo, crashes, hist>>

\* a transcription thread that applies its text to the session itself
Cap_TranscriptionReturns_StoresTranscript ==
    /\ \E j \in 1..Len(capture.trans) :
          /\ capture.trans[j].pc = "running"
          /\ capture' = [capture EXCEPT !.trans[j].pc = "emitted"]
          /\ session' = [session EXCEPT !.exploration_results =
                            DictPut(@, DisplayedId(capture.recs[capture.trans[j].rec].slot.index),
                                    WithTranscripts(evaluate_response(CHOOSE svc \in ScoredReplies : TRUE).result,
                                                    TranscriptOf(capture.trans[j].rec), NoneValue))]
    /\ UNCHANGED <<disk, onFinishedFrame>>

\* gui.py:369-374: TranscriptionThread.run emits the transcript
Cap_TranscriptionReturns ==
    /\ \E j \in 1..Len(capture.trans) :
          /\ capture.trans[j].pc = "running"
          /\ capture' = [capture EXCEPT !.trans[j].pc = "emitted"]
    /\ UNCHANGED nonCaptureVars

\* gui.py:538-542: _on_transcription_done
Cap_OnTranscriptionDone ==
    /\ \E j \in 1..Len(capture.trans) :
          /\ capture.trans[j].pc = "emitted"
          /\ capture' = [capture EXCEPT !.trans[j].pc = "done",
                                        !.transcript_edit = TranscriptOf(capture.trans[j].rec),
                                        !.accept_btn = TRUE, !.rerecord_btn = TRUE]
    /\ UNCHANGED nonCaptureVars

\* gui.py:544-550: the Re-record button
Cap_Rerecord ==
    /\ ~capture.closed
    /\ capture.rerecord_btn
    /\ \E c \in StopThreads(capture) :
          capture' = [c EXCEPT !.transcript_edit = "",
                               !.accept_btn = FALSE, !.rerecord_btn = FALSE]
    /\ UNCHANGED nonCaptureVars

\* gui.py:564-573, main.py:176-226: the Accept button. After the last
\* criterion finished is emitted and on_finished, in the same call, scores
\* and stores the transcripts; it then either loads the clarifications
\* (load_criteria, gui.py:575-586) or sets the stage and closes the window.
Cap_Accept ==
    /\ ~capture.closed
    /\ capture.accept_btn
    /\ capture.current_index < CaptureCriteria
    /\ LET results == DictPut(capture.results, DisplayedId(capture.current_index),
                              capture.transcript_edit)
           accepted == [capture EXCEPT !.results = results]
       IN  IF capture.current_index + 1 < CaptureCriteria
           THEN /\ capture' = [accepted EXCEPT !.current_index = @ + 1,
                                               !.transcript_edit = "",
                                               !.accept_btn = FALSE,
                                               !.rerecord_btn = FALSE]
                /\ UNCHANGED <<session, disk>>
           ELSE \E reply \in [DictKeys(results) -> ScoredReplies] :
                  LET stored == StoreResults(session.exploration_results, results, reply,
                                             Slot(capture).round)
                  IN  \/ /\ ~capture.loaded
                         /\ session' = [session EXCEPT !.exploration_results = stored]
                         /\ \E c \in StopThreads(accepted) :
                               capture' = [c EXCEPT !.current_index = 0, !.loaded = TRUE,
                                                    !.results = <<>>,
                                                    !.transcript_edit = "",
                                                    !.accept_btn = FALSE,
                                                    !.rerecord_btn = FALSE]
                      \/ /\ session' = WithStage([session EXCEPT !.exploration_results = stored],
                                                 "EVALUATION")
                         /\ capture' = [accepted EXCEPT !.current_index = @ + 1,
                                                        !.closed = TRUE]
                /\ disk' = save_session(disk, session', "ok")
    /\ UNCHANGED onFinishedFrame

CaptureNext ==
    \/ Cap_ToggleRecording \/ Cap_Rerecord \/ Cap_Accept
    \/ Cap_StartRecording \/ Cap_SilenceStop \/ Cap_RecordingReturns
    \/ Cap_OnRecordingDone \/ Cap_TranscriptionReturns \/ Cap_OnTranscriptionDone

\* the exploration window of a session at EXPLORATION whose answers flag the
\* criteria on display (main.py:162-174)
CaptureSession ==
    [NewSession EXCEPT
        !.stage = "EXPLORATION",
        !.screening_responses =
            [i \in 1..Len(Questions.item_ids) |-> [k |-> Questions.item_ids[i], v |-> TRUE]]]

CaptureInit ==
    /\ rater_in = RaterIdle
    /\ rater_out = [called |-> FALSE, exc |-> NoException, result |-> Null]
    /\ flagger = FlagIdle
    /\ AudioInit
    /\ StoreInit
    /\ TextInit
    /\ pc = "exploration_gui"
    /\ session = CaptureSession
    /\ disk = save_session(NoFile, CaptureSession, "ok")
    /\ responses = <<>>
    /\ gui = NoGui
    /\ phase = "exploration"
    /\ flagged = get_flagged_criteria(CaptureSession)
    /\ todo = <<>>
    /\ crashes = 0
    /\ hist = NoHist

SpecCapture == CaptureInit /\ [][CaptureNext]_vars

\* a step of the callback body
CallbackReturns == threads.cb.pc = "body" /\ threads'.cb.pc = "idle"

\* the silent run the recorder is in has lasted for the silence duration
QuietForSilenceDuration ==
    /\ heard.quiet_since # NoTime
    /\ clock - heard.quiet_since >= SILENCE_DURATION_S

\* C17: when the callback handles a silent block and every block delivered
\* for at least the silence duration (3 s) was silent, the recorder is
\* stopped afterwards (not recording) with stopped_by_silence = true.
C17_SilenceAutoStop ==
    [][(CallbackReturns /\ ~threads.cb.loud /\ QuietForSilenceDuration)
         => (recorder'.stopped_by_silence /\ ~recorder'.is_recording)]_vars

\* three seconds of silent blocks with no manual stop have stopped the recorder
C17_Witness ==
    /\ recorder.stopped_by_silence
    /\ ~recorder.is_recording
    /\ threads.ui.pc = "idle"
    /\ heard.quiet_since = heard.first_quiet
    /\ clock - heard.quiet_since = SILENCE_DURATION_S
    /\ Len(recorder.frames) = heard.blocks

\* C18: a loud block resets the silence timer to not-started; a
\* silence-triggered stop happens only in the callback of a silent block
\* when all blocks since the most recent loud block were silent and span at
\* least the silence duration, so never 3 s after an earlier silent block
\* when a loud block came in between.
C18_LoudBlockResetsTimer ==
    [][/\ (CallbackReturns /\ threads.cb.loud)
            => (recorder'.silence_start = NoTime /\ ~recorder'.stopped_by_silence)
       /\ (~recorder.stopped_by_silence /\ recorder'.stopped_by_silence)
            => (CallbackReturns /\ ~threads.cb.loud /\ QuietForSilenceDuration)]_vars

\* a silent block, a loud block, and a silent block 3 s or more after the
\* first one: the recorder goes on recording
C18_Witness ==
    /\ heard.first_quiet # NoTime
    /\ heard.quiet_since > heard.first_quiet
    /\ clock - heard.first_quiet >= SILENCE_DURATION_S
    /\ recorder.silence_start = heard.quiet_since
    /\ threads.cb.pc = "idle"
    /\ Len(recorder.frames) = 3
    /\ recorder.is_recording
    /\ ~recorder.stopped_by_silence

\* the steps of record_blocking once start_recording has returned
RB_Running ==
    \/ RB_LoopTest \/ RB_Sleep \/ RB_FinallyFlag \/ RB_FinallyStop
    \/ RB_FinallyClose \/ RB_Return

\* C19: a recording that record_blocking has started is never in its loop
\* later than max_duration (120 s) after its start, whatever the silence
\* state and whether or not a block was delivered; record_blocking always has
\* a next step to take (or waits for the callback in progress to return)
\* until it has returned, and on return the recorder is stopped.
C19_HardCeiling ==
    /\ threads.rb.pc \in {"loop", "sleep"}
         => clock - threads.rb.start_time <= MAX_DURATION_S
    /\ threads.rb.pc \in {"loop", "sleep", "finally", "finally_stop",
                          "finally_close", "result"}
         => (ENABLED RB_Running \/ (~CbIdle /\ ENABLED CB_Body))
    /\ threads.rb.pc = "returned"
         => (~recorder.is_recording /\ recorder.stream = "closed")

\* no block was delivered and nobody pressed Stop: record_blocking has
\* returned the empty recording at the ceiling
C19_Witness ==
    /\ threads.rb.pc = "returned"
    /\ threads.rb.result = <<>>
    /\ heard.blocks = 0
    /\ threads.ui.pc = "idle"
    /\ clock - threads.rb.start_time = MAX_DURATION_S

IsPrefix(s, t) == Len(s) <= Len(t) /\ SubSeq(t, 1, Len(s)) = s

ManualStopRequested == threads.ui.pc # "idle"

\* C20: a manual stop while recording is honored and is not an error: after
\* stop_recording the recorder is not recording and stays so, the recording
\* record_blocking returns starts with the blocks captured before the stop,
\* the recording thread completes with a result (record_blocking does not
\* raise), and stopped_by_silence is true only after a silence-triggered stop.
C20_ManualStopHonored ==
    [][/\ ManualStopRequested' => ~recorder'.is_recording
       /\ (ManualStopRequested' /\ threads'.rb.pc = "returned")
            => IsPrefix(np_concatenate(heard'.stop_frames), threads'.rb.result)
       /\ (ManualStopRequested /\ threads.rb.pc # "raised")
            => threads'.rb.pc # "raised"
       /\ (ManualStopRequested' /\ recorder'.stopped_by_silence)
            => QuietForSilenceDuration']_vars

OpenStreams(c) == {i \in 1..Len(c.recs) : c.recs[i].stream_open}

\* C11: a new recording is started only when no recording thread and no
\* transcription thread of the ExplorationGUI is running (every background
\* unit has been joined), and at most one capture stream is open at any time.
C11_NoOverlappingCaptures ==
    [][/\ Len(capture'.recs) > Len(capture.recs)
            => /\ \A i \in 1..Len(capture.recs) : ~RecRunning(capture.recs[i])
               /\ \A j \in 1..Len(capture.trans) : ~TransRunning(capture.trans[j])
       /\ Cardinality(OpenStreams(capture')) <= 1]_vars

\* _on_recording_done runs for recording thread i, which captured nothing
EmptyCaptureHandled(i) ==
    /\ capture.recs[i].pc = "emitted"
    /\ capture.recs[i].audio = "empty"
    /\ capture'.recs[i].pc = "done"

\* C21: an empty capture (device failure, immediate stop) is not an error:
\* record_blocking returns (the empty array) and does not raise, and when the
\* empty recording is handled no transcription is dispatched, no transcript
\* becomes acceptable and no other recording is started.
C21_EmptyCaptureIsNotAnError ==
    [][/\ \A i \in 1..Len(capture'.recs) : capture'.recs[i].pc # "failed"
       /\ \A i \in 1..Len(capture.recs) :
             EmptyCaptureHandled(i)
                => /\ capture'.trans = capture.trans
                   /\ capture'.accept_btn = capture.accept_btn
                   /\ Len(capture'.recs) = Len(capture.recs)]_vars

(***************************************************************************)
(* SpecVerdict: compute_disorder_verdicts on a session at EVALUATION with  *)
(* any exploration results, against a question bank with two disorders.    *)
(***************************************************************************)
VerdictBank ==
    [disorder_keys |-> <<"paranoid", "schizoid">>,
     threshold |-> [d \in {"paranoid", "schizoid"} |-> IF d = "paranoid" THEN 2 ELSE 1],
     criteria |-> [d \in {"paranoid", "schizoid"} |->
                      IF d = "paranoid" THEN <<"PPD_1", "PPD_2", "PPD_3">>
                      ELSE <<"SPD_1", "SPD_2">>]]

BankCriteria == <<"PPD_1", "PPD_2", "PPD_3", "SPD_1", "SPD_2">>

\* an ExplorationResult as evaluate_response and on_finished leave it
StoredResult(score, unresolved) ==
    [score |-> score, rationale |-> "", confidence |-> 5, unresolved |-> unresolved,
     clarifying_question |-> NoneValue, transcript |-> "spoken answer",
     clarification_transcript |-> NoneValue]

\* Null: no result stored for the criterion
StoredOptions ==
    {Null} \cup {StoredResult(Value(n), u) : n \in 0..2, u \in BOOLEAN}
             \cup {StoredResult(Unknown, TRUE)}

RECURSIVE ResultsDict(_, _)
ResultsDict(choice, ids) ==
    IF ids = <<>> THEN <<>>
    ELSE IF choice[Head(ids)] = Null THEN ResultsDict(choice, Tail(ids))
    ELSE <<[k |-> Head(ids), v |-> choice[Head(ids)]]>> \o ResultsDict(choice, Tail(ids))

VerdictInit ==
    /\ rater_in = RaterIdle
    /\ rater_out = [called |-> FALSE, exc |-> NoException, result |-> Null]
    /\ flagger = FlagIdle
    /\ AudioInit
    /\ StoreInit
    /\ TextInit
    /\ pc = "evaluation"
    /\ \E choice \in [SeqToSet(BankCriteria) -> StoredOptions] :
          session = [stage |-> "EVALUATION", screening_responses |-> <<>>,
                     exploration_results |-> ResultsDict(choice, BankCriteria),
                     disorder_verdicts |-> <<>>]
    /\ disk = NoFile
    /\ responses = <<>>
    /\ gui = NoGui
    /\ phase = "none"
    /\ flagged = <<>>
    /\ todo = <<>>
    /\ crashes = 0
    /\ hist = NoHist

\* main.py:255-256: verdicts = compute_disorder_verdicts(session, questions)
VerdictCall ==
    /\ pc = "evaluation"
    /\ session' = [session EXCEPT !.disorder_verdicts =
                       compute_disorder_verdicts(session, VerdictBank)]
    /\ pc' = "verdicts"
    /\ UNCHANGED <<disk, responses, gui, phase, flagged, todo, crashes, hist, nonPipeVars>>

VerdictNext == VerdictCall

SpecVerdict == VerdictInit /\ [][VerdictNext]_vars

ScoredTwo(r)      == r.score = Value(2)
AnyResult(r)      == TRUE
OpenResult(r)     == r.score = Unknown \/ r.unresolved

\* the criteria of disorder d with a stored result of the given kind
CriteriaWith(d, kind) ==
    {c \in SeqToSet(VerdictBank.criteria[d]) :
        /\ c \in DictKeys(session.exploration_results)
        /\ LET r == DictGet(session.exploration_results, c)
           IN  CASE kind = "ScoredTwo"  -> ScoredTwo(r)
                 [] kind = "AnyResult"  -> AnyResult(r)
                 [] kind = "OpenResult" -> OpenResult(r)}

VerdictsComputed == pc = "verdicts"

\* C22: for every category with a verdict, criteria_met is the number of its
\* criteria whose stored result has score exactly 2, threshold is the
\* category's threshold, and diagnosis is true exactly when
\* criteria_met >= threshold.
C22_CriteriaMetCountsScoreTwo ==
    VerdictsComputed =>
       \A d \in DictKeys(session.disorder_verdicts) :
          LET v == DictGet(session.disorder_verdicts, d)
          IN  /\ v.criteria_met = Cardinality(CriteriaWith(d, "ScoredTwo"))
              /\ v.threshold = VerdictBank.threshold[d]
              /\ v.diagnosis = (v.criteria_met >= v.threshold)

\* paranoid: two criteria scored 2, one scored 1 (diagnosis); schizoid: one
\* criterion Unknown, the other unexplored (no diagnosis)
C22_Witness ==
    /\ VerdictsComputed
    /\ DictKeys(session.disorder_verdicts) = {"paranoid", "schizoid"}
    /\ DictGet(session.disorder_verdicts, "paranoid").criteria_met = 2
    /\ DictGet(session.disorder_verdicts, "paranoid").diagnosis
    /\ Cardinality(CriteriaWith("paranoid", "AnyResult")) = 3
    /\ ~DictGet(session.disorder_verdicts, "schizoid").diagnosis
    /\ Cardinality(CriteriaWith("schizoid", "AnyResult")) = 1
    /\ CriteriaWith("schizoid", "OpenResult") # {}

\* C23: a category has a verdict if and only if at least one of its criteria
\* has a stored ExplorationResult.
C23_VerdictIffExplored ==
    VerdictsComputed =>
       \A d \in SeqToSet(VerdictBank.disorder_keys) :
          (d \in DictKeys(session.disorder_verdicts)) <=> (CriteriaWith(d, "AnyResult") # {})

\* only schizoid was explored: paranoid has no verdict
C23_Witness ==
    /\ VerdictsComputed
    /\ DictKeys(session.disorder_verdicts) = {"schizoid"}
    /\ CriteriaWith("paranoid", "AnyResult") = {}
    /\ Cardinality(CriteriaWith("schizoid", "AnyResult")) = 2

\* C24: for every category with a verdict, has_unresolved is true if and only
\* if one of its criteria has a stored result with score Unknown or with the
\* unresolved flag set.
C24_HasUnresolvedIffOpenResult ==
    VerdictsComputed =>
       \A d \in DictKeys(session.disorder_verdicts) :
          DictGet(session.disorder_verdicts, d).has_unresolved
             <=> (CriteriaWith(d, "OpenResult") # {})

\* paranoid has an Unknown result and schizoid only resolved ones
C24_Witness ==
    /\ VerdictsComputed
    /\ StoredResult(Unknown, TRUE) \in
          {DictGet(session.exploration_results, c) : c \in CriteriaWith("paranoid", "AnyResult")}
    /\ DictGet(session.disorder_verdicts, "paranoid").has_unresolved
    /\ CriteriaWith("schizoid", "AnyResult") # {}
    /\ ~DictGet(session.disorder_verdicts, "schizoid").has_unresolved

\* the verdicts of a session are those of its exploration results
VerdictsCurrent(sess) ==
    sess.disorder_verdicts = compute_disorder_verdicts(sess, Questions)

PersistedStage(file) == IF file.kind = "complete" THEN load_session(file).stage ELSE "none"

\* C25: whenever the persisted stage is REPORT or COMPLETE, the persisted
\* verdicts are compute_disorder_verdicts of the persisted exploration
\* results; and the step from EVALUATION to REPORT, in memory or on disk,
\* comes with the verdicts computed from the results of that same session.
C25_VerdictsStoredWithReport ==
    [][/\ PersistedStage(disk') \in {"REPORT", "COMPLETE"}
            => VerdictsCurrent(load_session(disk'))
       /\ (session # Null /\ session' # Null
            /\ session.stage = "EVALUATION" /\ session'.stage = "REPORT")
            => VerdictsCurrent(session')
       /\ (PersistedStage(disk) \notin {"REPORT", "COMPLETE"}
            /\ PersistedStage(disk') = "REPORT")
            => (session # Null /\ session.stage = "EVALUATION")]_vars

\* a persisted session at REPORT whose only disorder has a verdict with diagnosis
C25_Witness ==
    /\ PersistedStage(disk) = "REPORT"
    /\ load_session(disk).exploration_results # <<>>
    /\ "paranoid" \in DictKeys(load_session(disk).disorder_verdicts)
    /\ DictGet(load_session(disk).disorder_verdicts, "paranoid").diagnosis

BecomesComplete ==
    \/ PersistedStage(disk) # "COMPLETE" /\ PersistedStage(disk') = "COMPLETE"
    \/ /\ session' # Null /\ session'.stage = "COMPLETE"
       /\ (session = Null \/ session.stage # "COMPLETE")

\* C26: the stage becomes COMPLETE, in memory or on disk, only in the step in
\* which generate_pdf has returned; when generate_pdf raises, the persisted
\* stage stays REPORT and no process holds the session any more; and from
\* then on a resume is possible and leads to the report step again.
C26_CompleteOnlyAfterReport ==
    [][/\ BecomesComplete
            => (pc = "main" /\ session.stage = "REPORT" /\ hist'.report = "returned")
       /\ (hist.report # "raised" /\ hist'.report = "raised")
            => /\ PersistedStage(disk) = "REPORT"
               /\ disk' = disk
               /\ session' = Null
       /\ (pc' = "down" /\ hist'.report = "raised" /\ PersistedStage(disk') = "REPORT")
            => (ENABLED MainResume)'
       /\ (pc = "down" /\ pc' = "main" /\ PersistedStage(disk) = "REPORT")
            => (session'.stage = "REPORT" /\ (ENABLED RunReport)')]_vars

\* generate_pdf raised, the session was resumed and is in the report step again
C26_Witness ==
    /\ hist.report = "raised"
    /\ pc = "main"
    /\ session.stage = "REPORT"
    /\ PersistedStage(disk) = "REPORT"

(***************************************************************************)
(* SpecSessions: main() run again and again over data/sessions: it creates *)
(* a session or resumes an incomplete one, and the stage handlers take the *)
(* session from stage to stage, saving it each time. A record is the       *)
(* session as far as main() itself reads it: session_id, created_at,       *)
(* language, stage.                                                        *)
(***************************************************************************)
session_dir_Shared(sess) == "1f0c9a4e"

\* main.py:44-45: the directory of a session
session_dir(sess) == sess.session_id

\* main.py:48-53 in data/sessions: the file of the session is replaced
SaveInDir(dir, sess) == [dir EXCEPT ![session_dir(sess)] = sess]

\* main.py:62-78: the sessions with a state.json, oldest first
RECURSIVE SortedByCreation(_, _)
SortedByCreation(dir, ids) ==
    IF ids = {} THEN <<>>
    ELSE LET first == CHOOSE id \in ids :
                         \A other \in ids : dir[id].created_at <= dir[other].created_at
         IN  <<[session_id |-> dir[first].session_id,
                created_at |-> dir[first].created_at,
                stage |-> dir[first].stage]>>
             \o SortedByCreation(dir, ids \ {first})

list_sessions(dir) == SortedByCreation(dir, {id \in SessionIds : dir[id] # Null})

\* main.py:284
Incomplete(dir) == SelectSeq(list_sessions(dir), LAMBDA ses : ses.stage # "COMPLETE")

\* main.py:29-41 and 296-299: no session was chosen; create_session draws an
\* identifier and saves the new session
Ses_MainNew ==
    /\ sessions.proc = Null
    /\ sessions.now < MaxCreated
    /\ \E id \in SessionIds :
          LET new == [session_id |-> id, created_at |-> sessions.now,
                      language |-> "de", stage |-> "INIT"]
          IN  sessions' = [dir |-> SaveInDir(sessions.dir, new), proc |-> new,
                           now |-> sessions.now + 1]
    /\ UNCHANGED nonStoreVars

\* main.py:283-294: the user picks one of the incomplete sessions
Ses_MainResume ==
    /\ sessions.proc = Null
    /\ \E choice \in 1..Len(Incomplete(sessions.dir)) :
          sessions' = [sessions EXCEPT
              !.proc = sessions.dir[Incomplete(sessions.dir)[choice].session_id]]
    /\ UNCHANGED nonStoreVars

\* gui.py:327-330: the language box of the self-report form
Ses_LanguageChanged ==
    /\ sessions.proc # Null
    /\ sessions.proc.stage = "INIT"
    /\ \E lang \in {"de", "en"} :
          /\ lang # sessions.proc.language
          /\ sessions' = [sessions EXCEPT !.proc.language = lang]
    /\ UNCHANGED nonStoreVars

\* main.py:168-169, 204-205, 224-225, 236-241, 256-258, 271-272: a stage
\* handler sets the next stage and saves the session
Ses_StageHandler ==
    /\ sessions.proc # Null
    /\ sessions.proc.stage # "COMPLETE"
    /\ LET next == [sessions.proc EXCEPT !.stage = Stages[StageIndex(@) + 1]]
       IN  sessions' = [sessions EXCEPT !.proc = next,
                                        !.dir = SaveInDir(sessions.dir, next)]
    /\ UNCHANGED nonStoreVars

\* main() returns, or the process ends in any other way
Ses_MainEnd ==
    /\ sessions.proc # Null
    /\ sessions' = [sessions EXCEPT !.proc = Null]
    /\ UNCHANGED nonStoreVars

SessionsNext ==
    \/ Ses_MainNew \/ Ses_MainResume \/ Ses_LanguageChanged
    \/ Ses_StageHandler \/ Ses_MainEnd

SessionsInit == RecorderInit

SpecSessions == SessionsInit /\ [][SessionsNext]_vars

IsComplete(file) == file # Null /\ file.stage = "COMPLETE"

\* create_session runs and draws the identifier id
CreatesSession(id) ==
    /\ sessions'.now = sessions.now + 1
    /\ sessions'.proc # Null
    /\ sessions'.proc.session_id = id

\* C27: once the persisted stage of a session is COMPLETE, no step of the
\* pipeline (resume selection, stage handlers, language change, creation of
\* a session with an identifier of its own) changes any field of its
\* persisted record, and the session is never taken up again.
C27_CompleteIsImmutable ==
    [][/\ \A id \in SessionIds :
             (IsComplete(sessions.dir[id]) /\ ~CreatesSession(id))
                => sessions'.dir[id] = sessions.dir[id]
       /\ (sessions.proc = Null /\ sessions'.proc # Null)
             => sessions'.proc.stage # "COMPLETE"]_vars

\* two sessions, both COMPLETE: the one completed first lay on disk while the
\* stage handlers of the other one ran
C27_Witness ==
    /\ \A id \in SessionIds : IsComplete(sessions.dir[id])
    /\ sessions.dir["1f0c9a4e"].created_at < sessions.dir["7b3d2c61"].created_at
    /\ sessions.proc = Null

\* the parsed object has a score int() accepts and a confidence that is
\* absent or a number
NumericFields(svc) ==
    /\ ParsedObject(svc)
    /\ svc.obj.score.tag \in {"int", "numstr", "float"}
    /\ svc.obj.confidence.tag \in {"missing", "num"}

\* C28: every record evaluate_response returns has a score that is Unknown
\* or an integer in 0..2 and a confidence in [0,1]; for a parsed object with
\* an integer-coercible score s and a numeric or absent confidence the score
\* is min(2, max(0, int(s))) and the confidence is the given one clamped into
\* [0,1] (1.4 becomes 1.0), or 0.5 when absent.
C28_NumericFieldsBounded ==
    rater_out.called
       => /\ rater_out.exc = NoException
               => /\ rater_out.result.score \in {Unknown} \cup {Value(n) : n \in 0..2}
                  /\ rater_out.result.confidence \in 0..10
          /\ NumericFields(rater_in)
               => /\ rater_out.exc = NoException
                  /\ rater_out.result.score
                        = Value(Min(2, Max(0, IntOf(rater_in.obj.score).v)))
                  /\ rater_out.result.confidence
                        = IF rater_in.obj.confidence.tag = "missing" THEN 5
                          ELSE IF rater_in.obj.confidence.v > 10 THEN 10
                          ELSE IF rater_in.obj.confidence.v < 0 THEN 0
                          ELSE rater_in.obj.confidence.v

\* score 3 and confidence 1.4 came back as score 2 and confidence 1.0
C28_Witness ==
    /\ rater_out.called
    /\ NumericFields(rater_in)
    /\ rater_in.obj.score = Sc("int", 3)
    /\ rater_in.obj.confidence = Sc("num", 14)
    /\ rater_out.result.score = Value(2)
    /\ rater_out.result.confidence = 10


(***************************************************************************)
(* Fenced replies (rater.py:80-98)                                         *)
(***************************************************************************)
\* index of the closing fence of a stripped text that opens with a fence, 0 when none
ClosingFence(text) ==
    LET J == {j \in 2..Len(text) : text[j] = "FENCE"}
    IN  IF J = {} THEN 0 ELSE CHOOSE j \in J : \A k \in J : j <= k

\* the text opens with a fence and the lines up to the closing fence are one JSON object
FencedObject(raw) ==
    LET text == Strip(raw)
    IN  /\ text # <<>>
        /\ Head(text) = "FENCE"
        /\ ClosingFence(text) > 0
        /\ NonBlank(SubSeq(text, 2, ClosingFence(text) - 1)) = <<"OBJ">>

\* C29: for a reply that opens with a fence and encloses one JSON object up to
\* the closing fence, the call returns what it returns for the enclosed object
\* alone, whatever follows the closing fence; score 2, confidence 1.4 and no
\* unresolved member give score 2, confidence 1.0 and unresolved false.
C29_FencedObjectParsedAlone ==
    (rater_out.called /\ rater_in.transport = "ok" /\ FencedObject(rater_in.raw))
       => /\ LET alone == evaluate_response([rater_in EXCEPT !.raw = <<"OBJ">>])
             IN  /\ rater_out.exc = alone.exc
                 /\ rater_out.result = alone.result
          /\ (/\ rater_in.obj.score = Sc("int", 2)
              /\ rater_in.obj.confidence = Sc("num", 14)
              /\ rater_in.obj.unresolved = "missing")
                => /\ rater_out.exc = NoException
                   /\ rater_out.result.score = Value(2)
                   /\ rater_out.result.confidence = 10
                   /\ rater_out.result.unresolved = FALSE

C29_Witness ==
    /\ rater_out.called
    /\ rater_in.raw = <<"FENCE", "OBJ", "FENCE", "PROSE", "OBJ">>
    /\ rater_in.obj.score = Sc("int", 2)
    /\ rater_in.obj.confidence = Sc("num", 14)
    /\ rater_in.obj.unresolved = "missing"
    /\ rater_out.result.score = Value(2)
    /\ rater_out.result.confidence = 10
    /\ rater_out.result.unresolved = FALSE


(***************************************************************************)
(* Localized question-bank fields                                          *)
(*                                                                         *)
(* A criterion or screening item is a dict from field names to strings;    *)
(* any of its localized fields may be missing.  texts holds one criterion, *)
(* one screening item, the selected language and what each of the three    *)
(* readers of localized fields produced from them.                         *)
(***************************************************************************)
Languages == {"de", "en"}

\* dict.get(key, default)
Get(d, key, default) == IF key \in DOMAIN d THEN d[key] ELSE default

\* every dict holding some of the keys, each key with its own text
DictsOver(keys) == {[k \in present |-> "<" \o k \o ">"] : present \in SUBSET keys}

CriterionFields ==
    {"description_de", "description_en", "followup_question_de", "followup_question_en",
     "clarifying_question"}

ItemFields == {"text_de", "text_en"}

\* rater.py:28-32: the criterion and question parts of the user message
build_user_message(criterion, language) ==
    LET lang_suffix == IF language = "de" THEN "_de" ELSE "_en"
    IN  [criterion_desc |-> Get(criterion, "description" \o lang_suffix,
                                Get(criterion, "description_en", "")),
         followup_q     |-> Get(criterion, "followup_question" \o lang_suffix, "")]

\* gui.py:481-494: the description and question labels of the exploration window
update_display(crit, language) ==
    LET lang_suffix == "_" \o language
        clarifying  == Get(crit, "clarifying_question", "")
    IN  [desc     |-> Get(crit, "description" \o lang_suffix,
                          Get(crit, "description_en", "")),
         question |-> IF clarifying # ""
                      THEN "[Clarification] " \o clarifying
                      ELSE Get(crit, "followup_question" \o lang_suffix,
                               Get(crit, "followup_question_en", ""))]

\* gui.py:229-238: the text of one row of the self-report page
build_block_page(item, lang) ==
    [text |-> Get(item, "text_" \o lang, Get(item, "text_en", "???"))]

LocalizedInit ==
    /\ rater_in = RaterIdle
    /\ rater_out = [called |-> FALSE, exc |-> NoException, result |-> Null]
    /\ flagger = FlagIdle
    /\ AudioInit
    /\ StoreInit
    /\ PipeInit
    /\ \E language \in Languages, criterion \in DictsOver(CriterionFields),
          item \in DictsOver(ItemFields) :
          texts = [NoTexts EXCEPT !.language = language, !.criterion = criterion,
                                  !.item = item]

\* evaluate_response builds the message for the scoring service (rater.py:68)
Loc_BuildUserMessage ==
    /\ texts.message = Null
    /\ texts' = [texts EXCEPT !.message = build_user_message(texts.criterion, texts.language)]
    /\ UNCHANGED nonTextVars

\* the exploration window shows the criterion (gui.py:474-494)
Loc_UpdateDisplay ==
    /\ texts.display = Null
    /\ texts' = [texts EXCEPT !.display = update_display(texts.criterion, texts.language)]
    /\ UNCHANGED nonTextVars

\* the self-report window builds the row of the item (gui.py:236-238)
Loc_BuildBlockPage ==
    /\ texts.row = Null
    /\ texts' = [texts EXCEPT !.row = build_block_page(texts.item, texts.language)]
    /\ UNCHANGED nonTextVars

LocalizedNext ==
    \/ Loc_BuildUserMessage
    \/ Loc_UpdateDisplay
    \/ Loc_BuildBlockPage

SpecLocalized == LocalizedInit /\ [][LocalizedNext]_vars

\* the selected-language field is absent and the English one is there
OnlyEnglish(d, field) ==
    /\ (field \o "_" \o texts.language) \notin DOMAIN d
    /\ (field \o "_en") \in DOMAIN d

\* C30: every lookup of a localized field (criterion description, follow-up
\* question, screening-item text) yields the English field when the field of
\* the selected language is absent; in particular the follow-up question in
\* the message for the scoring service is then the English one.
C30_LookupsFallBackToEnglish ==
    /\ texts.message # Null
          => /\ OnlyEnglish(texts.criterion, "description")
                   => texts.message.criterion_desc = texts.criterion["description_en"]
             /\ OnlyEnglish(texts.criterion, "followup_question")
                   => texts.message.followup_q = texts.criterion["followup_question_en"]
    /\ texts.display # Null
          => /\ OnlyEnglish(texts.criterion, "description")
                   => texts.display.desc = texts.criterion["description_en"]
             /\ (OnlyEnglish(texts.criterion, "followup_question")
                    /\ "clarifying_question" \notin DOMAIN texts.criterion)
                   => texts.display.question = texts.criterion["followup_question_en"]
    /\ texts.row # Null
          => (OnlyEnglish(texts.item, "text") => texts.row.text = texts.item["text_en"])


(***************************************************************************)
(* The clarification round (main.py:189-222)                               *)
(***************************************************************************)
FlaggedIds(fl) == {fl[i].criterion_id : i \in 1..Len(fl)}

\* flagged criteria with a stored result that is unresolved and has no
\* clarification transcript
Qualifying(sess, fl) ==
    {c \in FlaggedIds(fl) \cap DictKeys(sess.exploration_results) :
        /\ DictGet(sess.exploration_results, c).unresolved
        /\ DictGet(sess.exploration_results, c).clarification_transcript = NoneValue}

\* C31: when the initial scoring of a round is over, the form is reloaded
\* with exactly the flagged criteria whose stored result is unresolved and
\* has no clarification transcript; when there is none, no clarification
\* round starts and the stage becomes EVALUATION.
C31_ClarificationSelectsUnresolved ==
    [][(pc = "selecting" /\ pc' # "down")
          => IF Qualifying(session, flagged) # {}
             THEN /\ phase' = "clarification"
                  /\ pc' = "exploration_gui"
                  /\ FlaggedIds(gui'.criteria) = Qualifying(session, flagged)
                  /\ Len(gui'.criteria) = Cardinality(Qualifying(session, flagged))
                  /\ session' = session
             ELSE /\ phase' = "exploration"
                  /\ gui' = gui
                  /\ session' = WithStage(session, "EVALUATION")]_vars

\* of two scored criteria the unresolved one alone is in the reloaded form
C31_Witness ==
    /\ pc = "exploration_gui"
    /\ phase = "clarification"
    /\ Len(session.exploration_results) = 2
    /\ Len(gui.criteria) = 1
    /\ gui.results = <<>>
    /\ \E c \in DictKeys(session.exploration_results) :
          /\ ~DictGet(session.exploration_results, c).unresolved
          /\ c \notin FlaggedIds(gui.criteria)


\* C32: a re-score with a clarification answer stores, for that criterion,
\* one scoring result in full, with the transcript the old result held and
\* the clarification answer as clarification_transcript; the results of the
\* other criteria and the order of the results stay as they were.
C32_RescoreReplacesResult ==
    [][(pc = "rerating" /\ session' # Null /\ session' # session)
          => LET c      == Head(todo).k
                 answer == Head(todo).v
                 old    == DictGet(session.exploration_results, c)
                 new    == DictGet(session'.exploration_results, c)
             IN  /\ c \in DictKeys(session.exploration_results)
                 /\ \E svc \in PipeReplies :
                       /\ evaluate_response(svc).exc = NoException
                       /\ new = WithTranscripts(evaluate_response(svc).result,
                                                old.transcript, answer)
                 /\ Len(session'.exploration_results) = Len(session.exploration_results)
                 /\ \A i \in 1..Len(session.exploration_results) :
                       /\ session'.exploration_results[i].k = session.exploration_results[i].k
                       /\ session.exploration_results[i].k # c
                             => session'.exploration_results[i] = session.exploration_results[i]
                 /\ session' = [session EXCEPT !.exploration_results =
                                                   session'.exploration_results]]_vars

\* an unresolved result was re-scored to 2: the service's rationale and
\* question of the old result are gone, its transcript is kept
C32_Witness ==
    /\ pc = "to_evaluation"
    /\ Len(session.exploration_results) = 2
    /\ \E c \in hist.rescored :
          LET r == DictGet(session.exploration_results, c)
          IN  /\ r.score = Value(2)
              /\ r.rationale = ""
              /\ r.clarifying_question = NoneValue
              /\ r.transcript = "spoken answer"
              /\ r.clarification_transcript = "[Transcription error: e]"


\* a session with the given answers and nothing else
AnswersOnly(sess) ==
    [NewSession EXCEPT !.screening_responses = sess.screening_responses]

\* C33: start_exploration leaves the session as it is; the flagged list it
\* captures is the one the answers alone give, whatever results the session
\* holds; the form gets the flagged entries without a stored result, in
\* flagged order; and the captured list stays the one of the answers for as
\* long as the process lives.
C33_FlaggedStableRemainingIsRest ==
    [][/\ (pc \in {"start_exploration", "resume_exploration"} /\ pc' = "exploration_gui")
            => /\ session' = session
               /\ flagged' = get_flagged_criteria(AnswersOnly(session))
               /\ gui'.criteria =
                     SelectSeq(flagged', LAMBDA c :
                        c.criterion_id \notin DictKeys(session.exploration_results))
       /\ (pc \in {"start_exploration", "resume_exploration"}
             /\ pc' \notin {"exploration_gui", "down"})
            => /\ flagged' = get_flagged_criteria(AnswersOnly(session))
               /\ \A i \in 1..Len(flagged') :
                     flagged'[i].criterion_id \in DictKeys(session.exploration_results)
       /\ (pc' \in {"exploration_gui", "rating", "selecting", "rerating", "to_evaluation"})
            => flagged' = get_flagged_criteria(AnswersOnly(session'))]_vars

\* a resumed process: two criteria are flagged, one has a result, the form
\* holds the other
C33_Witness ==
    /\ crashes >= 1
    /\ pc = "exploration_gui"
    /\ phase = "exploration"
    /\ Len(flagged) = 2
    /\ Len(session.exploration_results) = 1
    /\ Len(gui.criteria) = 1
    /\ gui.criteria[1].criterion_id \notin DictKeys(session.exploration_results)


\* every screening item of the bank has an entry in the answers
AllAnswered(resp) == \A item_id \in SeqToSet(Questions.item_ids) : item_id \in DictKeys(resp)

\* C34: the stage of a session leaves INIT, in memory or in the file, only
\* with an answer for every screening item of the bank: the self-report form
\* emits finished only then, also in a process that resumed the session.
C34_SelfReportNeedsEveryAnswer ==
    [][/\ (session # Null /\ session' # Null
              /\ session.stage = "INIT" /\ session'.stage # "INIT")
            => /\ session'.stage = "SELF_REPORT"
               /\ AllAnswered(responses)
               /\ session'.screening_responses = responses
       /\ (pc = "self_report" /\ pc' = "srf_exploration") => AllAnswered(responses)
       /\ (disk'.kind = "complete" /\ load_session(disk').stage # "INIT")
            => AllAnswered(load_session(disk').screening_responses)]_vars

\* a process that resumed the session at INIT has emitted finished
C34_Witness ==
    /\ crashes >= 1
    /\ pc = "srf_exploration"
    /\ session.stage = "SELF_REPORT"
    /\ AllAnswered(session.screening_responses)
    /\ disk.kind = "complete"
    /\ load_session(disk).stage = "SELF_REPORT"


\* C35: the recording record_blocking returns holds the frames of every
\* buffered block, block after block in the order of arrival, nothing
\* dropped, repeated or moved; and the duration the recorder reports is the
\* number of those frames divided by the sample rate.
C35_RecordingIsBufferInOrder ==
    RbAt("returned")
       => LET result == threads.rb.result
              frames == recorder.frames
              d      == duration_seconds(recorder)
          IN  /\ Len(result) = FramesPerBlock * Len(frames)
              /\ \A i \in 1..Len(frames) :
                    SubSeq(result, (i - 1) * FramesPerBlock + 1, i * FramesPerBlock)
                       = BlockArray(frames[i])
              /\ \A i, j \in 1..Len(frames) : i < j => frames[i] < frames[j]
              /\ d.frames * SAMPLE_RATE = Len(result) * d.rate
              /\ get_wav_bytes(result).frames = result

\* three blocks were buffered and the recording holds their frames in order
C35_Witness ==
    /\ RbAt("returned")
    /\ recorder.frames = <<1, 2, 3>>
    /\ Len(threads.rb.result) = 3 * FramesPerBlock
    /\ threads.rb.result[1].block = 1
    /\ threads.rb.result[Len(threads.rb.result)].block = 3
    /\ duration_seconds(recorder) = [frames |-> 3 * FramesPerBlock, rate |-> SAMPLE_RATE]

\* the steps of the recording thread, the audio callback and the
\* transcription thread
ThreadStep ==
    \/ Cap_StartRecording
    \/ Cap_SilenceStop
    \/ Cap_RecordingReturns
    \/ Cap_TranscriptionReturns

\* C36: the session is written only by the coordinating flow: no step of the
\* recording thread, the audio callback or the transcription thread changes
\* the session or its file; they hand back audio or text (the emitted signal),
\* and every change of the session is made by on_finished, run by the Accept
\* click on the last criterion.
C36_SessionWrittenByCoordinator ==
    [][/\ ThreadStep => (session' = session /\ disk' = disk)
       /\ (session' # session \/ disk' # disk) =>
              /\ Cap_Accept
              /\ capture.current_index + 1 = CaptureCriteria]_vars

\* on_finished stored a transcript that a transcription thread handed back
C36_Witness ==
    /\ session # CaptureSession
    /\ \E i \in 1..Len(capture.trans) :
          /\ capture.trans[i].pc = "done"
          /\ \E n \in 1..Len(session.exploration_results) :
                session.exploration_results[n].v.transcript = TranscriptOf(capture.trans[i].rec)

\* the place on display of criterion crit_id
IndexOf(crit_id) == CHOOSE n \in 0..(CaptureCriteria - 1) : DisplayedId(n) = crit_id

\* text is the transcript of a recording started while slot was on display
RecordedFor(text, slot) ==
    \A i \in 1..Len(capture.recs) :
        text = TranscriptOf(i) => capture.recs[i].slot = slot

\* C37: the transcript shown, accepted or stored for a criterion comes from a
\* recording that was started while that criterion was on display in that
\* round: the text in the transcript box belongs to the displayed criterion,
\* each accepted transcript to the criterion it is kept under, and each
\* stored transcript and clarification transcript to its criterion and round.
C37_TranscriptOfDisplayedCriterion ==
    /\ ~capture.closed => RecordedFor(capture.transcript_edit, Slot(capture))
    /\ \A n \in 1..Len(capture.results) :
          RecordedFor(capture.results[n].v,
                      [round |-> Slot(capture).round, index |-> IndexOf(capture.results[n].k)])
    /\ \A n \in 1..Len(session.exploration_results) :
          LET stored == session.exploration_results[n]
          IN  /\ RecordedFor(stored.v.transcript,
                             [round |-> "exploration", index |-> IndexOf(stored.k)])
              /\ RecordedFor(stored.v.clarification_transcript,
                             [round |-> "clarification", index |-> IndexOf(stored.k)])

\* a thread issues self._stream.stop(): record_blocking's finally, or the
\* GUI thread's stop_recording when the recorder has a _stream
StopIssued ==
    \/ RB_FinallyStop
    \/ UI_StopStream /\ recorder.stream # "none"

\* a thread issues self._stream.close()
CloseIssued == RB_FinallyClose \/ UI_Close

\* C38: the input stream of a recording is stopped and closed exactly once,
\* whichever of manual stop, silence or the ceiling ends it: stop is never
\* issued on a stream that is already stopped or closed, close never on a
\* closed one, and when record_blocking has returned the stream is closed.
C38_StreamStoppedAndClosedOnce ==
    [][/\ StopIssued => recorder.stream \notin {"stopped", "closed"}
       /\ CloseIssued => recorder.stream # "closed"
       /\ threads'.rb.pc = "returned" => recorder'.stream = "closed"]_vars

\* record_blocking has built, or is building, its result
ResultBuilt == threads.rb.pc \in {"result", "returned"}

\* C39: a block the stream delivers to a stopped recorder is not appended,
\* and from the moment record_blocking builds its result the capture buffer,
\* the silence timer and stopped_by_silence no longer change, under every
\* interleaving of the callback with stop_recording.
C39_StoppedRecorderKeepsBuffer ==
    [][/\ (heard'.blocks # heard.blocks /\ ~recorder.is_recording) =>
              (recorder' = recorder /\ threads'.cb = threads.cb)
       /\ ResultBuilt =>
              /\ recorder'.frames = recorder.frames
              /\ recorder'.silence_start = recorder.silence_start
              /\ recorder'.stopped_by_silence = recorder.stopped_by_silence
              /\ threads'.cb.pc = "idle"]_vars

\* record_blocking returned the buffer of a recording during which the
\* stream delivered a block that was not appended
C39_Witness ==
    /\ threads.rb.pc = "returned"
    /\ recorder.frames # <<>>
    /\ heard.blocks > Len(recorder.frames)
    /\ threads.rb.result = np_concatenate(recorder.frames)

\* every stored result of sess belongs to a criterion its answers flag
ResultsAreFlagged(sess) ==
    DictKeys(sess.exploration_results) \subseteq FlaggedIds(get_flagged_criteria(sess))

\* C40: in every reachable session state, in memory and in the session file,
\* every key of exploration_results is the id of a criterion in the flagged
\* set derived from that session's screening answers.
C40_ResultsOnlyForFlagged ==
    /\ session # Null => ResultsAreFlagged(session)
    /\ disk.kind = "complete" => ResultsAreFlagged(load_session(disk))

\* only part of the bank is flagged, and the flagged criterion has its result
\* in the session and in its file
C40_Witness ==
    /\ session # Null
    /\ FlaggedIds(get_flagged_criteria(session)) = {"PPD_1"}
    /\ DictKeys(session.exploration_results) = {"PPD_1"}
    /\ disk.kind = "complete"
    /\ DictKeys(load_session(disk).exploration_results) = {"PPD_1"}

====
